---- MODULE Spec2Model ----
(***************************************************************************)
(* Verification model of the OpusOne API server (src/index.js).            *)
(*                                                                         *)
(* Part I  : the OCR metadata heuristic, processSmartMetadata.             *)
(* Part II : the annotation compositor of GET /api/sheets/:id/download.    *)
(*                                                                         *)
(* JavaScript strings are modelled as sequences of UTF-16 code units       *)
(* (natural numbers), so that length, trim, split and the regular          *)
(* expressions are computed the way the engine computes them.              *)
(***************************************************************************)
EXTENDS Integers, Sequences, FiniteSets, TLC

VARIABLES
    text,         \* tesseractData.text handed to processSmartMetadata
    meta,         \* the record processSmartMetadata returned (or Pending)
    epc,          \* "ready" before the call, "done" after it
    annotations,  \* sheet.annotations of the sheet being downloaded
    pageCount,    \* pages.length of the stored PDF
    dpc,          \* position of the download handler
    keyPos,       \* index of the next key of Object.keys(targetAnnotations)
    ops,          \* drawing calls issued on the pages of pdfDoc, in order
    annErrors,    \* number of 'Error processing annotation' log lines
    response,     \* what the handler answered
    logBuffer,    \* the in-memory log buffer, newest entry first
    parked,       \* the locals of the handlers suspended at an await
    db,           \* the tables of the database and the storage bucket
    calls         \* the library requests in flight: parameters, locals, reply

evars == <<text, meta, epc>>
dvars == <<annotations, pageCount, dpc, keyPos, ops, annErrors, response>>

(* the state outside the handler that is running *)
ovars == <<parked, db, calls>>

-----------------------------------------------------------------------------
(* The logging system: console.log and console.error are replaced by       *)
(* functions that push a formatted entry on logBuffer before they print.   *)
(* An entry is kept without its timestamp; message is the text of the      *)
(* first argument and args are the values printed after it.                *)
LOG_BUFFER_SIZE == 1000

formatLog(type, message, args) == [type |-> type, message |-> message, args |-> args]

(* a pushLog that takes the entry back off the front when the buffer is full *)
pushLog_shift(buf, logEntry) ==
    LET grown == <<logEntry>> \o buf
    IN  IF Len(grown) > LOG_BUFFER_SIZE THEN SubSeq(grown, 2, Len(grown))
        ELSE grown

(* logBuffer.unshift(logEntry); if (logBuffer.length > SIZE) logBuffer.pop() *)
pushLog(buf, logEntry) ==
    LET grown == <<logEntry>> \o buf
    IN  IF Len(grown) > LOG_BUFFER_SIZE THEN SubSeq(grown, 1, Len(grown) - 1)
        ELSE grown

consoleLog(buf, message, args)   == pushLog(buf, formatLog("INFO", message, args))
consoleError(buf, message, args) == pushLog(buf, formatLog("ERROR", message, args))

(* n calls of console.error with the same message *)
RECURSIVE consoleErrors(_, _, _)
consoleErrors(buf, n, message) ==
    IF n = 0 THEN buf ELSE consoleErrors(consoleError(buf, message, <<>>), n - 1, message)

-----------------------------------------------------------------------------
(* Code units used below *)
LF     == <<10>>                                  \* "\n"
SPACE  == <<32>>                                  \* " "
COLON  == <<58>>                                  \* ":"
Mousiki  == <<924, 959, 965, 963, 953, 954, 942>> \* Greek "Mousike'" (Music)
Stichoi  == <<931, 964, 943, 967, 959, 953>>      \* Greek "Sti'choi" (Lyrics)
Music    == <<77, 117, 115, 105, 99>>             \* "Music"
Lyrics   == <<76, 121, 114, 105, 99, 115>>        \* "Lyrics"
Composer == <<67, 111, 109, 112, 111, 115, 101, 114>> \* "Composer"

(* String.prototype.trim and the regex class \s: WhiteSpace and            *)
(* LineTerminator code units.                                              *)
IsWhiteSpace(c) ==
    \/ c \in {9, 10, 11, 12, 13, 32, 160, 5760, 8232, 8233, 8239, 8287, 12288, 65279}
    \/ (c >= 8192 /\ c <= 8202)

RECURSIVE trimStart(_)
trimStart(s) ==
    IF s # <<>> /\ IsWhiteSpace(Head(s)) THEN trimStart(Tail(s)) ELSE s

RECURSIVE trimEnd(_)
trimEnd(s) ==
    IF s # <<>> /\ IsWhiteSpace(s[Len(s)])
    THEN trimEnd(SubSeq(s, 1, Len(s) - 1))
    ELSE s

trim(s) == trimEnd(trimStart(s))

(* String.prototype.split(sep) for a one-unit separator: "" gives [""].    *)
RECURSIVE splitFrom(_, _, _)
splitFrom(s, sep, cur) ==
    IF s = <<>> THEN <<cur>>
    ELSE IF Head(s) = sep
         THEN <<cur>> \o splitFrom(Tail(s), sep, <<>>)
         ELSE splitFrom(Tail(s), sep, Append(cur, Head(s)))

split(s, sep) == splitFrom(s, sep, <<>>)

NonEmpty(l) == Len(l) > 0

(* textLinesOf with the trim step left out *)
textLinesOf_noTrim(rawText) ==
    SelectSeq(split(rawText, 10), NonEmpty)

(* rawText.split('\n').map(l => l.trim()).filter(l => l.length > 0) *)
textLinesOf(rawText) ==
    LET parts == split(rawText, 10)
    IN  SelectSeq([i \in 1..Len(parts) |-> trim(parts[i])], NonEmpty)

-----------------------------------------------------------------------------
(* Character classes of isCleanLine (no i flag: plain code-unit ranges).   *)
IsGreekLetter(c) ==                       \* [U+0391-U+03A9 U+03B1-U+03C9 U+03AC-U+03CE]
    \/ (c >= 913 /\ c <= 937)
    \/ (c >= 945 /\ c <= 969)
    \/ (c >= 940 /\ c <= 974)

IsLatinLetter(c) ==                       \* [A-Za-z]
    \/ (c >= 65 /\ c <= 90)
    \/ (c >= 97 /\ c <= 122)

(* The denylist of decorative / diacritic / symbol code units. *)
NoiseChars ==
    {34, 39, 45, 46, 96, 183, 768, 769, 776, 787, 834, 837, 900, 901,
     8125, 8127, 8141, 8142, 8143, 8157, 8158, 8159, 8173, 8190,
     8211, 8212, 8213, 8219, 8223, 8226, 8228, 8229, 8230, 8231, 9702}
    \cup (9675..9689) \cup (9712..9839)

IsNoise(c) == c \in NoiseChars

(* (text.match(/[class]/g) || []).length *)
greekLetters(s) == Cardinality({i \in 1..Len(s) : IsGreekLetter(s[i])})
latinLetters(s) == Cardinality({i \in 1..Len(s) : IsLatinLetter(s[i])})
noiseChars(s)   == Cardinality({i \in 1..Len(s) : IsNoise(s[i])})

totalLetters(s) == greekLetters(s) + latinLetters(s)

(* isCleanLine without the comparison against the denylist count *)
isCleanLine_lettersOnly(s) == totalLetters(s) >= 3

isCleanLine(s) ==
    /\ totalLetters(s) >= 3
    /\ totalLetters(s) > noiseChars(s)

-----------------------------------------------------------------------------
(* Case-insensitive matching (flag i, no flag u): both sides are           *)
(* canonicalized with toUpperCase when the result is one code unit and     *)
(* does not map a non-ASCII unit into ASCII.                               *)
Canonicalize(c) ==
    CASE c >= 97 /\ c <= 122  -> c - 32
      [] c = 181              -> 924      \* micro sign -> capital mu
      [] c = 837              -> 921      \* combining ypogegrammeni -> capital iota
      [] c = 940              -> 902
      [] c >= 941 /\ c <= 943 -> c - 37
      [] c >= 945 /\ c <= 961 -> c - 32
      [] c = 962              -> 931      \* final sigma -> capital sigma
      [] c >= 963 /\ c <= 971 -> c - 32
      [] c = 972              -> 908
      [] c >= 973 /\ c <= 974 -> c - 63
      [] OTHER                -> c

(* The name class [U+0391-U+03A9 U+03B1-U+03C9 U+03AC-U+03CE A-Za-z\s] under flag i *)
NameClassUnits == (913..937) \cup (940..974) \cup (65..90) \cup (97..122)

CanonNameClass == {Canonicalize(a) : a \in NameClassUnits}

InNameClass(c) == IsWhiteSpace(c) \/ Canonicalize(c) \in CanonNameClass

IsSep(c) == c = 58 \/ IsWhiteSpace(c)     \* [:\s]

(* literal w matches at position pos of line, ignoring case *)
LitAt(line, pos, w) ==
    /\ pos + Len(w) - 1 <= Len(line)
    /\ \A k \in 1..Len(w) : Canonicalize(line[pos + k - 1]) = Canonicalize(w[k])

(* \s+<w> matches at position q *)
WsThenLit(line, q, w) ==
    \E t \in 1..(Len(line) - q + 1) :
        /\ \A k \in 0..(t - 1) : IsWhiteSpace(line[q + k])
        /\ LitAt(line, q + t, w)

(* (?:\s+<stop1>|\s+<stop2>|$) matches at position q *)
TailOk(line, q, stops) ==
    \/ \E w \in stops : WsThenLit(line, q, w)
    \/ q = Len(line) + 1

(* lengths m of a capture [name class]+? starting at p that let the rest match *)
CapLens(line, p, stops) ==
    {m \in 1..(Len(line) - p + 1) :
        /\ \A t \in 0..(m - 1) : InNameClass(line[p + t])
        /\ TailOk(line, p + m, stops)}

(* lengths k of [:\s]+ starting at j that let the rest match *)
SepLens(line, j, stops) ==
    {k \in 1..(Len(line) - j + 1) :
        /\ \A t \in 0..(k - 1) : IsSep(line[j + t])
        /\ CapLens(line, j + k, stops) # {}}

Max(S) == CHOOSE x \in S : \A y \in S : y <= x
Min(S) == CHOOSE x \in S : \A y \in S : x <= y

(* line.match(/<label>[:\s]+([name class]+?)(?:\s+<stop>|\s+<stop>|$)/i):  *)
(* leftmost start, greedy separator, lazy capture.  found = FALSE is null. *)
labelMatch(line, label, stops) ==
    LET starts == {i \in 1..Len(line) :
                      /\ LitAt(line, i, label)
                      /\ SepLens(line, i + Len(label), stops) # {}}
    IN  IF starts = {} THEN [found |-> FALSE, cap |-> <<>>]
        ELSE LET i == Min(starts)
                 j == i + Len(label)
                 k == Max(SepLens(line, j, stops))
                 m == Min(CapLens(line, j + k, stops))
             IN  [found |-> TRUE, cap |-> SubSeq(line, j + k, j + k + m - 1)]

musicMatch(line)  == labelMatch(line, Mousiki, {Stichoi, Lyrics})
lyricsMatch(line) == labelMatch(line, Stichoi, {Mousiki, Music})

(* line.match(/^(Mousiki|Stichoi|Music|Lyrics|Composer):/i) *)
LabelWords == {Mousiki, Stichoi, Music, Lyrics, Composer}

hasLabelPrefix(line) ==
    \E w \in LabelWords : LitAt(line, 1, w \o COLON)

-----------------------------------------------------------------------------
(* IsTitleLine without the label-prefix skip *)
IsTitleLine_noLabelSkip(line) ==
    /\ isCleanLine(line)
    /\ Len(line) >= 4

(* IsTitleLine that accepts lines of length 3 *)
IsTitleLine_length3(line) ==
    /\ isCleanLine(line)
    /\ ~hasLabelPrefix(line)
    /\ Len(line) >= 3

(* Title selection: the first clean line without a label prefix and with   *)
(* length >= 4; "" when there is none.                                     *)
IsTitleLine(line) ==
    /\ isCleanLine(line)
    /\ ~hasLabelPrefix(line)
    /\ Len(line) >= 4

selectTitle(textLines) ==
    LET cand == SelectSeq(textLines, IsTitleLine)
    IN  IF cand = <<>> THEN <<>> ELSE Head(cand)

(* Composer by label: the loop over textLines with its break.  The value   *)
(* threaded through the loop is the composer set so far.                   *)
RECURSIVE labelScan(_, _, _)
RECURSIVE labelScan_skipEmpty(_, _, _)
(* labelScan that passes over a music label whose trimmed capture is empty *)
labelScan_skipEmpty(textLines, i, composer) ==
    IF i > Len(textLines) THEN composer
    ELSE LET mm == musicMatch(textLines[i])
             lm == lyricsMatch(textLines[i])
         IN  IF mm.found /\ trim(mm.cap) # <<>> THEN trim(mm.cap)
             ELSE labelScan_skipEmpty(textLines, i + 1,
                            IF lm.found /\ composer = <<>>
                            THEN trim(lm.cap) ELSE composer)

labelScan(textLines, i, composer) ==
    IF i > Len(textLines) THEN composer
    ELSE LET mm == musicMatch(textLines[i])
             lm == lyricsMatch(textLines[i])
         IN  IF mm.found THEN trim(mm.cap)
             ELSE labelScan(textLines, i + 1,
                            IF lm.found /\ composer = <<>>
                            THEN trim(lm.cap) ELSE composer)

(* positionalComposer that scans every line, clean or not *)
positionalComposer_unfiltered(textLines, title) ==
    LET IsCand(line) == line # title /\ Len(line) >= 3
        cand == IF textLines = <<>> THEN <<>> ELSE SelectSeq(Tail(textLines), IsCand)
    IN  IF cand = <<>> THEN <<>> ELSE Head(cand)

(* positionalComposer that does not skip the first clean line *)
positionalComposer_noSkip(textLines, title) ==
    LET clean == SelectSeq(textLines, isCleanLine)
        IsCand(line) == line # title /\ Len(line) >= 3
        cand  == SelectSeq(clean, IsCand)
    IN  IF cand = <<>> THEN <<>> ELSE Head(cand)

(* positionalComposer that does not compare the line with the title *)
positionalComposer_allowTitle(textLines, title) ==
    LET clean == SelectSeq(textLines, isCleanLine)
        IsCand(line) == Len(line) >= 3
        cand  == IF clean = <<>> THEN <<>> ELSE SelectSeq(Tail(clean), IsCand)
    IN  IF cand = <<>> THEN <<>> ELSE Head(cand)

(* Positional fallback: skip the first clean line, take the next clean     *)
(* line that differs from the title and has length >= 3.                   *)
positionalComposer(textLines, title) ==
    LET clean == SelectSeq(textLines, isCleanLine)
        IsCand(line) == line # title /\ Len(line) >= 3
        cand  == IF clean = <<>> THEN <<>> ELSE SelectSeq(Tail(clean), IsCand)
    IN  IF cand = <<>> THEN <<>> ELSE Head(cand)

selectComposer(textLines, title) ==
    LET labelled == labelScan(textLines, 1, <<>>)
    IN  IF labelled = <<>> THEN positionalComposer(textLines, title)
        ELSE labelled

(* processSmartMetadata whose early return forgets the rawText field *)
processSmartMetadata_noRawText(t) ==
    LET rawText   == t
        textLines == textLinesOf(rawText)
        title     == selectTitle(textLines)
    IN  IF Len(textLines) = 0
        THEN [title |-> <<>>, composer |-> <<>>]
        ELSE [title |-> title,
              composer |-> selectComposer(textLines, title),
              rawText |-> rawText]

processSmartMetadata(t) ==
    LET rawText   == t
        textLines == textLinesOf(rawText)
        title     == selectTitle(textLines)
    IN  IF Len(textLines) = 0
        THEN [title |-> <<>>, composer |-> <<>>, rawText |-> <<>>]
        ELSE [title |-> title,
              composer |-> selectComposer(textLines, title),
              rawText |-> rawText]

-----------------------------------------------------------------------------
(* Inputs of the extractor: every concatenation of at most MaxPieces        *)
(* fragments, plus the worked examples of the specification.               *)
MaxPieces == 3

Bach   == <<66, 97, 99, 104>>             \* "Bach": four Latin letters
Abc    == <<97, 98, 99>>                  \* "abc": three Latin letters
Ab     == <<97, 98>>                      \* "ab": two Latin letters
Dashes == <<45, 45, 45, 45, 45, 45, 45, 45, 45>>  \* "---------": nine denylisted units
Ypo    == <<837>>                         \* U+0345, denylisted combining mark
Under  == <<95>>                          \* "_": neither letter nor denylisted

Fragments ==
    {LF, SPACE, Mousiki \o COLON, Stichoi \o COLON, Music \o COLON,
     Bach, Abc, Ab, Dashes, Ypo, Under}

RECURSIVE Flatten(_)
Flatten(ps) == IF ps = <<>> THEN <<>> ELSE Head(ps) \o Flatten(Tail(ps))

Generated ==
    {Flatten(ps) : ps \in UNION {[1..k -> Fragments] : k \in 0..MaxPieces}}

(* "Symphony No. 5\nLudwig van Beethoven\nMusic: L. Beethoven" *)
SymphonyNo5 == <<83, 121, 109, 112, 104, 111, 110, 121, 32, 78, 111, 46, 32, 53>>
Beethoven   == <<66, 101, 101, 116, 104, 111, 118, 101, 110>>
LudwigVanBeethoven == <<76, 117, 100, 119, 105, 103, 32, 118, 97, 110, 32>> \o Beethoven
MusicLBeethoven    == Music \o COLON \o SPACE \o <<76, 46, 32>> \o Beethoven
BeethovenExample   == SymphonyNo5 \o LF \o LudwigVanBeethoven \o LF \o MusicLBeethoven

(* "Bach\n---------\nabc": an underline between title and composer *)
UnderlinedExample == Bach \o LF \o Dashes \o LF \o Abc

(* a denylisted mark on a line of its own, and again after a label *)
MarkExample == Ypo \o LF \o Stichoi \o COLON \o Ypo

(* two letters on a line of their own, and again after a label *)
ShortNameExample == Ab \o LF \o Mousiki \o COLON \o SPACE \o Ab

(* a lyricist label before and a music label after, on separate lines *)
TwoLabelExample == Stichoi \o COLON \o Abc \o LF \o Mousiki \o COLON \o Bach

(* a music label followed by two blanks and a lyricist label, so that the   *)
(* music capture is one blank, and a named music label on the next line    *)
EmptyMusicExample ==
    Mousiki \o COLON \o SPACE \o SPACE \o Stichoi \o COLON \o LF \o Mousiki \o COLON \o Bach

(* the same with the labels exchanged *)
EmptyLyricsExample ==
    Stichoi \o COLON \o SPACE \o SPACE \o Mousiki \o COLON \o LF \o Stichoi \o COLON \o Abc

(* the title line repeated before the composer line *)
RepeatedTitleExample == Bach \o LF \o Bach \o LF \o Abc

(* "music:abc\nBach": a label prefix in lower case *)
LowerCaseLabelExample == <<109, 117, 115, 105, 99>> \o COLON \o Abc \o LF \o Bach

Examples ==
    {BeethovenExample, UnderlinedExample, MarkExample, ShortNameExample,
     TwoLabelExample, EmptyMusicExample, EmptyLyricsExample, RepeatedTitleExample,
     LowerCaseLabelExample}

Inputs == Generated \cup Examples

Pending == [pending |-> TRUE]

(* the download handler at rest: no request in progress *)
DownloadIdle ==
    /\ annotations = <<>>
    /\ pageCount = 0
    /\ dpc = "idle"
    /\ keyPos = 0
    /\ ops = <<>>
    /\ annErrors = 0
    /\ response = "none"

(* no log line yet, no other handler in flight *)
NoDb ==
    [users |-> {}, sheets |-> {}, sheet_shares |-> {}, folders |-> {},
     sheet_folders |-> {}, folder_shares |-> {}, storage |-> {}, nextId |-> 1]

Alone ==
    /\ logBuffer = <<>>
    /\ parked = <<>>
    /\ db = NoDb
    /\ calls = <<>>

InitExtract ==
    /\ text \in Inputs
    /\ meta = Pending
    /\ epc = "ready"
    /\ DownloadIdle
    /\ Alone

(* the caller hands the recognized text to processSmartMetadata *)
Extract ==
    /\ epc = "ready"
    /\ meta' = processSmartMetadata(text)
    /\ epc' = "done"
    /\ logBuffer' = IF textLinesOf(text) = <<>> THEN logBuffer
                    ELSE consoleLog(logBuffer, "Extracted - Title:",
                                    <<meta'.title, meta'.composer>>)
    /\ UNCHANGED text
    /\ UNCHANGED <<dvars, ovars>>

NextExtract == Extract

vars == <<text, meta, epc, annotations, pageCount, dpc, keyPos, ops, annErrors, response,
          logBuffer, parked, db, calls>>

SpecExtract == InitExtract /\ [][NextExtract]_vars

-----------------------------------------------------------------------------
(* The text-layer strategy: the text pdf-parse read from a PDF that has a  *)
(* text layer, without the clean-line test and the label patterns.         *)

(* extractMetadataFromPdf that keeps only the clean lines *)
extractMetadataFromPdf_cleanOnly(t) ==
    LET lines == SelectSeq(textLinesOf(t), isCleanLine)
    IN  [title    |-> IF Len(lines) >= 1 THEN lines[1] ELSE <<>>,
         composer |-> IF Len(lines) >= 2 THEN lines[2] ELSE <<>>,
         rawText  |-> t]

(* src/index.js: lines[0] || "", lines[1] || "", rawText: data.text; an    *)
(* index past the end of lines reads undefined                             *)
extractMetadataFromPdf(t) ==
    LET lines == SelectSeq([i \in 1..Len(split(t, 10)) |-> trim(split(t, 10)[i])], NonEmpty)
    IN  [title    |-> IF Len(lines) >= 1 THEN lines[1] ELSE <<>>,
         composer |-> IF Len(lines) >= 2 THEN lines[2] ELSE <<>>,
         rawText  |-> t]

(* src/test-ocr.js: the same heuristic, shared by the image and PDF paths *)
processExtractedText(t) ==
    LET lines == SelectSeq([i \in 1..Len(split(t, 10)) |-> trim(split(t, 10)[i])], NonEmpty)
    IN  [title    |-> IF Len(lines) >= 1 THEN lines[1] ELSE <<>>,
         composer |-> IF Len(lines) >= 2 THEN lines[2] ELSE <<>>,
         rawText  |-> t]

InitTextLayer ==
    /\ text \in Inputs
    /\ meta = Pending
    /\ epc = "parsed"
    /\ DownloadIdle
    /\ Alone

(* the upload route hands data.text of pdfParse to the strategy *)
ExtractFromPdf ==
    /\ epc = "parsed"
    /\ meta' = extractMetadataFromPdf(text)
    /\ epc' = "done"
    /\ UNCHANGED <<text, logBuffer>>
    /\ UNCHANGED <<dvars, ovars>>

(* the test runner does the same through processExtractedText *)
ProcessExtractedText ==
    /\ epc = "parsed"
    /\ meta' = processExtractedText(text)
    /\ epc' = "tested"
    /\ UNCHANGED <<text, logBuffer>>
    /\ UNCHANGED <<dvars, ovars>>

NextTextLayer ==
    \/ ExtractFromPdf
    \/ ProcessExtractedText

SpecTextLayer == InitTextLayer /\ [][NextTextLayer]_vars

-----------------------------------------------------------------------------
(* Vocabulary of the properties, written out from the claims and not from  *)
(* the operators above.                                                    *)
IsString(v) == v \in Seq(Nat)

EmptyMeta == [title |-> <<>>, composer |-> <<>>, rawText |-> <<>>]

Contains(s, w) ==
    \E i \in 1..(Len(s) - Len(w) + 1) : SubSeq(s, i, i + Len(w) - 1) = w

LinesOf(t) == textLinesOf(t)

LineSet(t) == {LinesOf(t)[i] : i \in 1..Len(LinesOf(t))}

LetterCount(l) ==
    Cardinality({i \in 1..Len(l) : IsLatinLetter(l[i]) \/ IsGreekLetter(l[i])})

DenyCount(l) == Cardinality({i \in 1..Len(l) : l[i] \in NoiseChars})

(* the clean-line test, as the specification words it *)
PassesCleanTest(l) == LetterCount(l) >= 3 /\ LetterCount(l) > DenyCount(l)

(* a line without a single Latin or Greek letter *)
NoLetterLine(l) == LetterCount(l) = 0

StartsWith(l, w) == Len(l) >= Len(w) /\ SubSeq(l, 1, Len(w)) = w

Upper(l) == [i \in 1..Len(l) |-> Canonicalize(l[i])]

HasLabelPrefix(l) ==
    \E w \in LabelWords : StartsWith(Upper(l), Upper(w \o COLON))

MentionsLabel(l) ==
    Contains(Upper(l), Upper(Mousiki)) \/ Contains(Upper(l), Upper(Stichoi))

\* C1: for every input string, extract returns (without throwing) a record
\* with exactly the fields title, composer and rawText, each a string.
C1_ExtractTotal ==
    epc = "done" =>
        /\ DOMAIN meta = {"title", "composer", "rawText"}
        /\ IsString(meta.title)
        /\ IsString(meta.composer)
        /\ IsString(meta.rawText)

C1_Witness ==
    /\ epc = "done"
    /\ DOMAIN meta = {"title", "composer", "rawText"}
    /\ meta.title # <<>>
    /\ meta.composer # <<>>
    /\ meta.composer # meta.title

\* C2: an input that is empty or made of blank / whitespace-only lines
\* yields title = "", composer = "" and rawText = "".
C2_BlankInput ==
    (epc = "done" /\ \A i \in 1..Len(text) : IsWhiteSpace(text[i]))
        => meta = EmptyMeta

C2_Witness ==
    /\ epc = "done"
    /\ Len(text) >= 2
    /\ \A i \in 1..Len(text) : IsWhiteSpace(text[i])
    /\ meta = EmptyMeta

\* C3: the Beethoven example yields title "Symphony No. 5" and a composer
\* containing "Beethoven"; a line prefixed with "Music:" is never the title.
C3_BeethovenExample ==
    epc = "done" =>
        /\ text = BeethovenExample =>
              /\ meta.title = SymphonyNo5
              /\ Contains(meta.composer, Beethoven)
        /\ ~StartsWith(meta.title, Music \o COLON)

C3_Witness ==
    /\ epc = "done"
    /\ text = BeethovenExample
    /\ meta.title = SymphonyNo5
    /\ meta.composer = LudwigVanBeethoven

\* C4 (as stated): a line made only of dashes, bullets, underline or other
\* non-letter characters is never returned as the title or as the composer,
\* whatever the other lines are.
C4_NoLetterLineNeverReturned ==
    epc = "done" =>
        \A l \in LineSet(text) :
            NoLetterLine(l) => (meta.title # l /\ meta.composer # l)

\* C4 (amended): a line that fails the clean-line test is never the title,
\* and is never the composer when it holds a character outside the name
\* class of the label patterns (so never for dashes, bullets, underline).
C4_NoisyLineNotSelected ==
    epc = "done" =>
        \A l \in LineSet(text) :
            ~PassesCleanTest(l) =>
                /\ meta.title # l
                /\ (\E i \in 1..Len(l) : ~InNameClass(l[i])) => meta.composer # l

C4_Witness ==
    /\ epc = "done"
    /\ Len(LinesOf(text)) = 3
    /\ LinesOf(text)[2] = Dashes
    /\ meta.title = LinesOf(text)[1]
    /\ meta.composer = LinesOf(text)[3]

\* C5 (as stated): one non-empty line gives title = the line if it is clean
\* and has length >= 4, else ""; the composer is always "".
C5_SingleLine ==
    (epc = "done" /\ Len(LinesOf(text)) = 1) =>
        LET l == LinesOf(text)[1]
        IN  /\ meta.title = (IF PassesCleanTest(l) /\ Len(l) >= 4 THEN l ELSE <<>>)
            /\ meta.composer = <<>>

\* C5 (amended): one non-empty line gives title = the line if it is clean,
\* has length >= 4 and no label prefix, else ""; the composer is the name
\* captured by the Mousiki / Stichoi label pattern, "" if the line has none.
C5_SingleLineAmended ==
    (epc = "done" /\ Len(LinesOf(text)) = 1) =>
        LET l  == LinesOf(text)[1]
            mm == musicMatch(l)
            lm == lyricsMatch(l)
        IN  /\ meta.title = (IF PassesCleanTest(l) /\ Len(l) >= 4 /\ ~HasLabelPrefix(l)
                             THEN l ELSE <<>>)
            /\ meta.composer = (IF mm.found THEN trim(mm.cap)
                                ELSE IF lm.found THEN trim(lm.cap) ELSE <<>>)
            /\ ~MentionsLabel(l) => meta.composer = <<>>

C5_Witness ==
    /\ epc = "done"
    /\ Len(LinesOf(text)) = 1
    /\ HasLabelPrefix(LinesOf(text)[1])
    /\ PassesCleanTest(LinesOf(text)[1])
    /\ meta.title = <<>>
    /\ meta.composer = Bach

\* C6 (as stated): when no line passes the clean-line test, title and
\* composer are both "".
C6_AllNoise ==
    (epc = "done" /\ \A l \in LineSet(text) : ~PassesCleanTest(l)) =>
        (meta.title = <<>> /\ meta.composer = <<>>)

\* C6 (amended): when no line passes the clean-line test the title is "",
\* and the composer is "" unless a line carries a Mousiki / Stichoi label,
\* in which case it is a name taken from such a line.
C6_AllNoiseAmended ==
    (epc = "done" /\ \A l \in LineSet(text) : ~PassesCleanTest(l)) =>
        /\ meta.title = <<>>
        /\ meta.composer # <<>> =>
              \E l \in LineSet(text) : MentionsLabel(l) /\ Contains(l, meta.composer)

C6_Witness ==
    /\ epc = "done"
    /\ LineSet(text) # {}
    /\ \A l \in LineSet(text) : ~PassesCleanTest(l)
    /\ meta.title = <<>>
    /\ meta.composer = Ab

-----------------------------------------------------------------------------
(***************************************************************************)
(* Part II: GET /api/sheets/:id/download?annotated=true                    *)
(*                                                                         *)
(* Normalized coordinates, colour channels and opacities are fractions;    *)
(* they are kept in hundredths (Scale) so that the arithmetic stays in the *)
(* integers.  An optional JSON field is <<>> when absent and <<v>> when    *)
(* present.                                                                *)
(***************************************************************************)
MaxPages == 2       \* pages of the stored PDF
MaxAnns  == 2       \* annotations put into the annotation map

Scale == 100

Absent  == <<>>
Some(v) == <<v>>
Has(f)  == f # <<>>
Val(f)  == f[1]

(* page.getSize() of page i (0-based) of the stored document *)
PageSize(i) == [width |-> 400 + 200 * i, height |-> 800 - 100 * i]

-----------------------------------------------------------------------------
(* parseInt(pageIndex): leading white space, an optional sign, then the    *)
(* longest prefix of decimal digits; NaN when there is none.  (Keys with   *)
(* a 0x prefix are not part of the key sample.)                            *)
IsDigit(c) == c >= 48 /\ c <= 57

RECURSIVE digitPrefix(_)
digitPrefix(s) ==
    IF s # <<>> /\ IsDigit(Head(s)) THEN <<Head(s)>> \o digitPrefix(Tail(s)) ELSE <<>>

RECURSIVE digitsValue(_)
digitsValue(ds) ==
    IF ds = <<>> THEN 0
    ELSE 10 * digitsValue(SubSeq(ds, 1, Len(ds) - 1)) + (ds[Len(ds)] - 48)

parseInt(s) ==
    LET t      == trimStart(s)
        signed == t # <<>> /\ Head(t) \in {43, 45}
        body   == IF signed THEN Tail(t) ELSE t
        ds     == digitPrefix(body)
    IN  IF ds = <<>> THEN [nan |-> TRUE, val |-> 0]
        ELSE [nan |-> FALSE,
              val |-> IF signed /\ Head(t) = 45 THEN 0 - digitsValue(ds) ELSE digitsValue(ds)]

(* inRange without the lower bound *)
inRange_noLowerBound(pageNum, count) ==
    ~pageNum.nan /\ pageNum.val <= count

(* pageNum >= 1 && pageNum <= pages.length (false for NaN) *)
inRange(pageNum, count) ==
    ~pageNum.nan /\ pageNum.val >= 1 /\ pageNum.val <= count

-----------------------------------------------------------------------------
(* Object.keys(targetAnnotations): integer-like keys in ascending numeric  *)
(* order, then the other keys in insertion order.  The map is read from a  *)
(* JSONB column, which stores the keys of an object by length and then     *)
(* bytewise, so that is the insertion order.                               *)
IsIndexKey(k) ==
    /\ k # <<>>
    /\ \A i \in 1..Len(k) : IsDigit(k[i])
    /\ (Len(k) > 1 => k[1] # 48)

RECURSIVE lexLess(_, _)
lexLess(a, b) ==
    IF a = <<>> \/ b = <<>> THEN a = <<>> /\ b # <<>>
    ELSE IF Head(a) # Head(b) THEN Head(a) < Head(b)
         ELSE lexLess(Tail(a), Tail(b))

jsonbLess(a, b) == Len(a) < Len(b) \/ (Len(a) = Len(b) /\ lexLess(a, b))

keyBefore(a, b) ==
    IF IsIndexKey(a) /\ IsIndexKey(b) THEN digitsValue(a) < digitsValue(b)
    ELSE IF IsIndexKey(a) # IsIndexKey(b) THEN IsIndexKey(a)
         ELSE jsonbLess(a, b)

RECURSIVE sortKeys(_)
sortKeys(S) ==
    IF S = {} THEN <<>>
    ELSE LET first == CHOOSE k \in S : \A o \in S \ {k} : keyBefore(k, o)
         IN  <<first>> \o sortKeys(S \ {first})

ObjectKeys(m) == sortKeys(DOMAIN m)

-----------------------------------------------------------------------------
(* JSON.parse of the colour payloads that occur in the annotation sample:  *)
(* an RGB triple, an object without channels, and text that is not JSON.   *)
RedJson   == "{\"r\":1,\"g\":0,\"b\":0}"
EmptyJson == "{}"
NotJson   == "red"

NoChannels == [r |-> Absent, g |-> Absent, b |-> Absent]

JSONparse(str) ==
    CASE str = RedJson   -> [threw |-> FALSE,
                             val |-> [r |-> Some(100), g |-> Some(0), b |-> Some(0)]]
      [] str = EmptyJson -> [threw |-> FALSE, val |-> NoChannels]
      [] OTHER           -> [threw |-> TRUE, val |-> NoChannels]

(* colorOf without the inner try: a payload that does not parse gives no   *)
(* usable colour                                                           *)
colorOf_noInnerTry(ann, dflt) ==
    IF Has(ann.color)
    THEN JSONparse(Val(ann.color)).val
    ELSE dflt

(* let colorObj = dflt; try { colorObj = ann.color ? JSON.parse(ann.color) *)
(* : colorObj } catch (e) {}                                               *)
colorOf(ann, dflt) ==
    IF Has(ann.color)
    THEN LET parsed == JSONparse(Val(ann.color))
         IN  IF parsed.threw THEN dflt ELSE parsed.val
    ELSE dflt

(* pdf-lib rgb(r, g, b) throws unless every channel is a number in [0, 1] *)
channelOk(ch) == Has(ch) /\ Val(ch) >= 0 /\ Val(ch) <= Scale

rgbThrows(c) == ~(channelOk(c.r) /\ channelOk(c.g) /\ channelOk(c.b))

rgb(c) == <<Val(c.r), Val(c.g), Val(c.b)>>

(* pdf-lib drawLine throws when opacity lies outside [0, 1] *)
opacityThrows(opacity) == opacity < 0 \/ opacity > Scale

Yellow == [r |-> Some(100), g |-> Some(100), b |-> Some(0)]
Black  == [r |-> Some(0), g |-> Some(0), b |-> Some(0)]

(* p => ({ x: p.x * width, y: height - (p.y * height) }) *)
toPage(p, size) ==
    [x |-> (p.x * size.width) \div Scale,
     y |-> size.height - ((p.y * size.height) \div Scale)]

(* p.x * width and p.y * height are NaN for a point object without x or   *)
(* y, and pdf-lib drawLine throws on a NaN coordinate of start or end      *)
isNumberPoint(p) == {"x", "y"} \subseteq DOMAIN p

drawLineThrows(points, i) == ~isNumberPoint(points[i]) \/ ~isNumberPoint(points[i + 1])

(* the body of the per-annotation try block for a path annotation: rgb is  *)
(* evaluated and drawLine called once per segment, and the segments drawn  *)
(* before a throw stay on the page                                         *)
drawPath(ann, page, size) ==
    LET colorObj   == colorOf(ann, Yellow)
        opacity    == IF Has(ann.opacity) THEN Val(ann.opacity) ELSE 50
        thickness  == IF Has(ann.strokeWidth) /\ Val(ann.strokeWidth) # 0
                      THEN Val(ann.strokeWidth) ELSE 5
        failing    == {i \in 1..(Len(ann.points) - 1) : drawLineThrows(ann.points, i)}
        drawn      == IF failing = {} THEN Len(ann.points) - 1 ELSE Min(failing) - 1
    IN  IF rgbThrows(colorObj) \/ opacityThrows(opacity)
        THEN [threw |-> TRUE, ops |-> <<>>]
        ELSE [threw |-> failing # {},
              ops |-> [i \in 1..drawn |->
                         [page |-> page, op |-> "drawLine",
                          start |-> toPage(ann.points[i], size),
                          end |-> toPage(ann.points[i + 1], size),
                          thickness |-> thickness, color |-> rgb(colorObj),
                          opacity |-> opacity]]]

(* drawTextAnn without the vertical flip: y measured from the bottom edge *)
drawTextAnn_noFlip(ann, page, size) ==
    LET fontSize == IF Has(ann.size) /\ Val(ann.size) # 0 THEN Val(ann.size) ELSE 12
        x        == (ann.x * size.width) \div Scale
        y        == ((ann.y * size.height) \div Scale) - fontSize + 2
        colorObj == colorOf(ann, Black)
    IN  IF rgbThrows(colorObj)
        THEN [threw |-> TRUE, ops |-> <<>>]
        ELSE [threw |-> FALSE,
              ops |-> <<[page |-> page, op |-> "drawText", text |-> ann.text,
                         x |-> x, y |-> y, size |-> fontSize,
                         color |-> rgb(colorObj)]>>]

(* the body of the per-annotation try block for a text annotation *)
drawTextAnn(ann, page, size) ==
    LET fontSize == IF Has(ann.size) /\ Val(ann.size) # 0 THEN Val(ann.size) ELSE 12
        x        == (ann.x * size.width) \div Scale
        y        == size.height - ((ann.y * size.height) \div Scale) - fontSize + 2
        colorObj == colorOf(ann, Black)
    IN  IF rgbThrows(colorObj)
        THEN [threw |-> TRUE, ops |-> <<>>]
        ELSE [threw |-> FALSE,
              ops |-> <<[page |-> page, op |-> "drawText", text |-> ann.text,
                         x |-> x, y |-> y, size |-> fontSize,
                         color |-> rgb(colorObj)]>>]

(* processAnnotation without the `ann.points &&` guard: reading .length   *)
(* of a missing points field throws                                        *)
processAnnotation_noPointsGuard(ann, page, size) ==
    IF ann.type = "path" /\ ~ann.hasPoints
    THEN [threw |-> TRUE, ops |-> <<>>]
    ELSE IF ann.type = "path" /\ Len(ann.points) > 1
         THEN drawPath(ann, page, size)
         ELSE IF ann.type = "text" /\ ann.text # ""
              THEN drawTextAnn(ann, page, size)
              ELSE [threw |-> FALSE, ops |-> <<>>]

(* one iteration of pageAnns.forEach: what the try block drew and whether  *)
(* the catch clause ran                                                    *)
processAnnotation(ann, page, size) ==
    IF ann.type = "path" /\ ann.hasPoints /\ Len(ann.points) > 1
    THEN drawPath(ann, page, size)
    ELSE IF ann.type = "text" /\ ann.text # ""
         THEN drawTextAnn(ann, page, size)
         ELSE [threw |-> FALSE, ops |-> <<>>]

(* forEachAnn without the per-annotation try: the first throw leaves the   *)
(* loop and reaches the caller                                             *)
RECURSIVE forEachAnn_noTry(_, _, _, _)
forEachAnn_noTry(pageAnns, i, page, size) ==
    IF i > Len(pageAnns) THEN [threw |-> FALSE, ops |-> <<>>, errors |-> 0]
    ELSE LET one == processAnnotation(pageAnns[i], page, size)
         IN  IF one.threw THEN [threw |-> TRUE, ops |-> <<>>, errors |-> 0]
             ELSE LET rest == forEachAnn_noTry(pageAnns, i + 1, page, size)
                  IN  [threw |-> rest.threw, ops |-> one.ops \o rest.ops,
                       errors |-> rest.errors]

(* pageAnns.forEach(ann => { try {...} catch (annErr) { console.error } }) *)
(* from annotation i on: the draws, the number of caught errors, and       *)
(* whether an exception left the loop (the catch clause lets none out)     *)
RECURSIVE forEachAnn(_, _, _, _)
forEachAnn(pageAnns, i, page, size) ==
    IF i > Len(pageAnns) THEN [threw |-> FALSE, ops |-> <<>>, errors |-> 0]
    ELSE LET one  == processAnnotation(pageAnns[i], page, size)
             rest == forEachAnn(pageAnns, i + 1, page, size)
         IN  [threw  |-> rest.threw,
              ops    |-> one.ops \o rest.ops,
              errors |-> (IF one.threw THEN 1 ELSE 0) + rest.errors]

(* one iteration of Object.keys(targetAnnotations).forEach.  An entry that *)
(* is not an array has no forEach: the TypeError leaves both loops.        *)
processKey(m, pageIndex, count) ==
    LET pageNum == parseInt(pageIndex)
        entry   == m[pageIndex]
    IN  IF ~inRange(pageNum, count)
        THEN [threw |-> FALSE, ops |-> <<>>, errors |-> 0]
        ELSE IF ~entry.isArray
             THEN [threw |-> TRUE, ops |-> <<>>, errors |-> 0]
             ELSE LET done == forEachAnn(entry.anns, 1, pageNum.val - 1,
                                         PageSize(pageNum.val - 1))
                  IN  [threw |-> done.threw, ops |-> done.ops, errors |-> done.errors]

-----------------------------------------------------------------------------
(* The annotation sample *)
Pt(x, y) == [x |-> x, y |-> y]

Blank ==
    [type |-> "path", hasPoints |-> FALSE, points |-> <<>>, color |-> Absent,
     opacity |-> Absent, strokeWidth |-> Absent, text |-> "", x |-> 0, y |-> 0,
     size |-> Absent]

LongPath ==          \* three points, a valid colour, opacity 1, width 2
    [Blank EXCEPT !.hasPoints = TRUE,
                  !.points = <<Pt(0, 0), Pt(50, 50), Pt(100, 0)>>,
                  !.color = Some(RedJson), !.opacity = Some(100),
                  !.strokeWidth = Some(2)]

UnparseablePath ==   \* two points, colour text that is not JSON
    [Blank EXCEPT !.hasPoints = TRUE, !.points = <<Pt(0, 100), Pt(100, 100)>>,
                  !.color = Some(NotJson)]

NotRgbPath ==        \* two points, colour JSON without channels
    [Blank EXCEPT !.hasPoints = TRUE, !.points = <<Pt(50, 0), Pt(50, 100)>>,
                  !.color = Some(EmptyJson)]

OnePointPath ==      \* a single point
    [Blank EXCEPT !.hasPoints = TRUE, !.points = <<Pt(50, 50)>>,
                  !.color = Some(RedJson)]

NoPointsPath == Blank                     \* no points field

EmptyPath == [Blank EXCEPT !.hasPoints = TRUE]   \* points: []

TopLeftText ==       \* text at the normalized origin, default size and colour
    [Blank EXCEPT !.type = "text", !.text = "Hi"]

NotRgbText ==        \* text with colour JSON without channels
    [Blank EXCEPT !.type = "text", !.text = "Lo", !.x = 50, !.y = 50,
                  !.size = Some(20), !.color = Some(EmptyJson)]

AnnSample ==
    {LongPath, UnparseablePath, NotRgbPath, OnePointPath, NoPointsPath,
     EmptyPath, TopLeftText, NotRgbText}

(* The key sample: "0", "1" and "2" (page numbers, "0" before the first    *)
(* page), "9" (past the last page), "x" (parseInt gives NaN) and "1x"      *)
(* (parseInt gives 1, a second key of page 1)                              *)
KeySample ==
    {<<48>>, <<49>>, <<50>>, <<57>>, <<120>>, <<49, 120>>}

(* The annotation map is what at most MaxAnns additions leave behind: an   *)
(* addition appends an annotation to the array of a key, or stores a value *)
(* that is not an array under the key.                                     *)
NotAnArray == [isArray |-> FALSE, anns |-> <<>>]
ArrayOf(anns) == [isArray |-> TRUE, anns |-> anns]

Additions ==
    {[key |-> k, array |-> TRUE, ann |-> a] : k \in KeySample, a \in AnnSample}
    \cup {[key |-> k, array |-> FALSE, ann |-> Blank] : k \in KeySample}

RECURSIVE buildMap(_)
buildMap(adds) ==
    IF adds = <<>> THEN <<>>
    ELSE LET m   == buildMap(SubSeq(adds, 1, Len(adds) - 1))
             add == adds[Len(adds)]
             new == IF ~add.array THEN NotAnArray
                    ELSE IF add.key \in DOMAIN m
                         THEN IF m[add.key].isArray
                              THEN ArrayOf(Append(m[add.key].anns, add.ann))
                              ELSE NotAnArray
                         ELSE ArrayOf(<<add.ann>>)
         IN  (add.key :> new) @@ m

Maps == {buildMap(adds) : adds \in UNION {[1..k -> Additions] : k \in 0..MaxAnns}}

-----------------------------------------------------------------------------
(* The download handler *)
Reply(status, body) == [status |-> status, body |-> body]
NoReply == Reply(0, "")

ExtractIdle ==
    /\ text = <<>>
    /\ meta = Pending
    /\ epc = "idle"

InitDownload ==
    /\ ExtractIdle
    /\ annotations \in Maps
    /\ pageCount = MaxPages
    /\ dpc = "request"
    /\ keyPos = 0
    /\ ops = <<>>
    /\ annErrors = 0
    /\ response = NoReply
    /\ Alone

(* hasAnnotations taken to be true of every map *)
hasAnnotations_always(m) == TRUE

(* Object.keys(targetAnnotations).length > 0 *)
hasAnnotations(m) == DOMAIN m # {}

(* the query finds no sheet the requester may read, or it has no file_url *)
NotFound ==
    /\ dpc = "request"
    /\ dpc' = "done"
    /\ response' = Reply(404, "File not found")
    /\ UNCHANGED <<annotations, pageCount, keyPos, ops, annErrors>>
    /\ UNCHANGED <<evars, ovars, logBuffer>>

(* annotated !== 'true' or the map has no key: redirect to the stored file *)
Redirect ==
    /\ dpc = "request"
    /\ \E annotated \in BOOLEAN : ~annotated \/ ~hasAnnotations(annotations)
    /\ dpc' = "done"
    /\ response' = Reply(302, "file_url")
    /\ UNCHANGED <<annotations, pageCount, keyPos, ops, annErrors>>
    /\ UNCHANGED <<evars, ovars, logBuffer>>

(* annotated === 'true' and the map has keys: fetch the stored PDF *)
FetchPdf ==
    /\ dpc = "request"
    /\ hasAnnotations(annotations)
    /\ \E ok \in BOOLEAN :
          LET announced == consoleLog(consoleLog(logBuffer, "Generating annotated PDF for sheet:", <<>>),
                                      "Annotations:", <<>>)
          IN  IF ok
              THEN /\ dpc' = "fetched"
                   /\ logBuffer' = announced
                   /\ UNCHANGED response
              ELSE /\ dpc' = "done"
                   /\ logBuffer' = consoleError(announced, "Failed to fetch PDF:", <<>>)
                   /\ response' = Reply(500, "Failed to fetch original PDF")
    /\ UNCHANGED <<annotations, pageCount, keyPos, ops, annErrors>>
    /\ UNCHANGED <<evars, ovars>>

(* PDFDocument.load and embedFont; either may throw into the outer catch *)
LoadPdf ==
    /\ dpc = "fetched"
    /\ \E outcome \in {"ok", "load failed", "font failed"} :
          IF outcome = "ok"
          THEN dpc' = "render" /\ keyPos' = 1 /\ UNCHANGED <<response, logBuffer>>
          ELSE /\ dpc' = "done"
               /\ response' = Reply(500, outcome)
               /\ logBuffer' = consoleError(logBuffer, "Download failed:", <<>>)
               /\ UNCHANGED keyPos
    /\ UNCHANGED <<annotations, pageCount, ops, annErrors>>
    /\ UNCHANGED <<evars, ovars>>

(* one iteration of Object.keys(targetAnnotations).forEach *)
RenderKey ==
    /\ dpc = "render"
    /\ keyPos <= Len(ObjectKeys(annotations))
    /\ LET r == processKey(annotations, ObjectKeys(annotations)[keyPos], pageCount)
       IN  IF r.threw
           THEN /\ dpc' = "done"
                /\ response' = Reply(500, "render failed")
                /\ logBuffer' = consoleError(logBuffer, "Download failed:", <<>>)
                /\ UNCHANGED <<keyPos, ops, annErrors>>
           ELSE /\ ops' = ops \o r.ops
                /\ annErrors' = annErrors + r.errors
                /\ logBuffer' = consoleErrors(logBuffer, r.errors, "Error processing annotation:")
                /\ keyPos' = keyPos + 1
                /\ UNCHANGED <<dpc, response>>
    /\ UNCHANGED <<annotations, pageCount>>
    /\ UNCHANGED <<evars, ovars>>

(* pdfDoc.save() and res.send once every key has been visited *)
SendPdf ==
    /\ dpc = "render"
    /\ keyPos > Len(ObjectKeys(annotations))
    /\ dpc' = "done"
    /\ response' = Reply(200, "annotated pdf")
    /\ UNCHANGED <<annotations, pageCount, keyPos, ops, annErrors>>
    /\ UNCHANGED <<evars, ovars, logBuffer>>

NextDownload ==
    \/ NotFound
    \/ Redirect
    \/ FetchPdf
    \/ LoadPdf
    \/ RenderKey
    \/ SendPdf

SpecDownload == InitDownload /\ [][NextDownload]_vars

(* Requests for a sheet whose annotation map holds text annotations only:  *)
(* one page key with one or two text annotations, over a grid of origins,  *)
(* sizes (absent, 0, 20) and colours (absent, red, JSON without channels)  *)
TextAnn(x, y, size, color) ==
    [Blank EXCEPT !.type = "text", !.text = "Hi", !.x = x, !.y = y,
                  !.size = size, !.color = color]

TextSample ==
    {TextAnn(x, y, size, color) :
        x \in {0, 50, 100}, y \in {0, 25, 100},
        size \in {Absent, Some(0), Some(20)},
        color \in {Absent, Some(EmptyJson)}}

TextMaps ==
    {(k :> ArrayOf(anns)) :
        k \in {<<49>>, <<50>>},
        anns \in [1..1 -> TextSample] \cup [1..2 -> TextSample]}

InitText ==
    /\ ExtractIdle
    /\ annotations \in TextMaps
    /\ pageCount = MaxPages
    /\ dpc = "request"
    /\ keyPos = 0
    /\ ops = <<>>
    /\ annErrors = 0
    /\ response = NoReply
    /\ Alone

SpecText == InitText /\ [][NextDownload]_vars

(* Requests for a sheet whose annotation map holds path annotations only:  *)
(* one page key with one or two paths of two or three points, where a      *)
(* point may lack its x field, in the default colour or with colour JSON   *)
(* without channels                                                        *)
NoX(y) == [y |-> y]

PathPoints == {Pt(0, 0), Pt(50, 50), NoX(50)}

PathAnn(points, color) ==
    [Blank EXCEPT !.hasPoints = TRUE, !.points = points, !.color = color]

PathSample ==
    {PathAnn(points, color) :
        points \in [1..2 -> PathPoints] \cup [1..3 -> PathPoints],
        color \in {Absent, Some(EmptyJson)}}

PathMaps ==
    {(k :> ArrayOf(anns)) :
        k \in {<<49>>, <<50>>},
        anns \in [1..1 -> PathSample] \cup [1..2 -> PathSample]}

InitPath ==
    /\ ExtractIdle
    /\ annotations \in PathMaps
    /\ pageCount = MaxPages
    /\ dpc = "request"
    /\ keyPos = 0
    /\ ops = <<>>
    /\ annErrors = 0
    /\ response = NoReply
    /\ Alone

SpecPath == InitPath /\ [][NextDownload]_vars

-----------------------------------------------------------------------------
(* Several invocations in one process.  Node runs one handler at a time;   *)
(* at an await the running handler is suspended with its locals and the    *)
(* event loop resumes another one.  logBuffer is module-level state and is *)
(* not part of any handler's locals.                                       *)
MaxParked == 1      \* handlers in flight besides the running one

frame ==
    [text |-> text, meta |-> meta, epc |-> epc,
     annotations |-> annotations, pageCount |-> pageCount, dpc |-> dpc,
     keyPos |-> keyPos, ops |-> ops, annErrors |-> annErrors,
     response |-> response]

(* a resumed download handler draws on its own pdfDoc, but one that sees a *)
(* document shared at module level                                         *)
docOf_moduleLevel(f) == ops

(* const pdfDoc = await PDFDocument.load(...): the document is a local of  *)
(* the invocation, so a resumed handler draws on its own                   *)
docOf(f) == f.ops

(* the running handler is at an await (or has returned); the key loop of   *)
(* the download handler has no await in it                                 *)
AtAwait ==
    \/ dpc \in {"idle", "request", "fetched", "done"}
    \/ dpc = "render" /\ keyPos > Len(ObjectKeys(annotations))

Switch ==
    /\ AtAwait
    /\ \E i \in 1..Len(parked) :
          /\ parked' = [parked EXCEPT ![i] = frame]
          /\ text' = parked[i].text
          /\ meta' = parked[i].meta
          /\ epc' = parked[i].epc
          /\ annotations' = parked[i].annotations
          /\ pageCount' = parked[i].pageCount
          /\ dpc' = parked[i].dpc
          /\ keyPos' = parked[i].keyPos
          /\ ops' = docOf(parked[i])
          /\ annErrors' = parked[i].annErrors
          /\ response' = parked[i].response
    /\ UNCHANGED <<logBuffer, db, calls>>

(* the invocations: extractions of two texts and downloads of three maps *)
ExtractStarts ==
    {[text |-> t, meta |-> Pending, epc |-> "ready",
      annotations |-> <<>>, pageCount |-> 0, dpc |-> "idle", keyPos |-> 0,
      ops |-> <<>>, annErrors |-> 0, response |-> NoReply] :
        t \in {BeethovenExample, TwoLabelExample}}

DownloadStarts ==
    {[text |-> <<>>, meta |-> Pending, epc |-> "idle",
      annotations |-> m, pageCount |-> MaxPages, dpc |-> "request", keyPos |-> 0,
      ops |-> <<>>, annErrors |-> 0, response |-> NoReply] :
        m \in {(<<49>> :> ArrayOf(<<LongPath, NotRgbPath>>)),
               (<<49>> :> ArrayOf(<<TopLeftText>>)) @@ (<<50>> :> ArrayOf(<<UnparseablePath>>)),
               (<<50>> :> NotAnArray)}}

Starts == ExtractStarts \cup DownloadStarts

InitConcurrent ==
    /\ \E f \in Starts :
          /\ text = f.text
          /\ meta = f.meta
          /\ epc = f.epc
          /\ annotations = f.annotations
          /\ pageCount = f.pageCount
          /\ dpc = f.dpc
          /\ keyPos = f.keyPos
          /\ ops = f.ops
          /\ annErrors = f.annErrors
          /\ response = f.response
    /\ parked \in UNION {[1..n -> Starts] : n \in 1..MaxParked}
    /\ logBuffer = <<>>
    /\ db = NoDb
    /\ calls = <<>>

NextConcurrent ==
    \/ Extract
    \/ NotFound
    \/ Redirect
    \/ FetchPdf
    \/ LoadPdf
    \/ RenderKey
    \/ SendPdf
    \/ Switch

SpecConcurrent == InitConcurrent /\ [][NextConcurrent]_vars

-----------------------------------------------------------------------------
(* Vocabulary of the compositor properties *)
Keys == ObjectKeys(annotations)

(* the keys the loop has finished with *)
Visited == SubSeq(Keys, 1, keyPos - 1)

Rendering == dpc \in {"render", "done"} /\ keyPos >= 1

Sent == dpc = "done" /\ response.status = 200

RenderFailed == dpc = "done" /\ response.status = 500 /\ keyPos >= 1

(* the page number of a key lies in [1, page count] *)
PageNumberInRange(k) ==
    LET n == parseInt(k)
    IN  ~n.nan /\ n.val >= 1 /\ n.val <= pageCount

PageIndex(k) == parseInt(k).val - 1

(* the draws of each annotation of anns, taken one by one, in order *)
RECURSIVE DrawsOf(_, _)
DrawsOf(anns, page) ==
    IF anns = <<>> THEN <<>>
    ELSE processAnnotation(Head(anns), page, PageSize(page)).ops
             \o DrawsOf(Tail(anns), page)

FailsToDraw(ann) == processAnnotation(ann, 0, PageSize(0)).threw
Survives(ann)    == ~FailsToDraw(ann)

(* a path with no points field, no point or a single point *)
Degenerate(ann)    == ann.type = "path" /\ (~ann.hasPoints \/ Len(ann.points) <= 1)
NotDegenerate(ann) == ~Degenerate(ann)

Drawable(k) == PageNumberInRange(k) /\ annotations[k].isArray

(* everything the annotations that do not fail draw, over the keys ks *)
RECURSIVE SurvivorDraws(_)
SurvivorDraws(ks) ==
    IF ks = <<>> THEN <<>>
    ELSE (IF Drawable(Head(ks))
          THEN DrawsOf(SelectSeq(annotations[Head(ks)].anns, Survives), PageIndex(Head(ks)))
          ELSE <<>>) \o SurvivorDraws(Tail(ks))

RECURSIVE FailureCount(_)
FailureCount(ks) ==
    IF ks = <<>> THEN 0
    ELSE (IF Drawable(Head(ks))
          THEN Len(SelectSeq(annotations[Head(ks)].anns, FailsToDraw))
          ELSE 0) + FailureCount(Tail(ks))

\* C7: an annotation whose processing fails does not stop the rendering:
\* every other annotation of the same page and of the other in-range pages
\* is drawn, in the original order, and the failure alone never turns the
\* response into an error.
C7_FailureIsolated ==
    /\ Rendering =>
          /\ ops = SurvivorDraws(Visited)
          /\ annErrors = FailureCount(Visited)
    /\ RenderFailed => ~annotations[Keys[keyPos]].isArray
    /\ Sent => Visited = Keys

C7_Witness ==
    /\ Sent
    /\ \E k \in DOMAIN annotations :
          /\ Drawable(k)
          /\ Len(annotations[k].anns) = 2
          /\ FailsToDraw(annotations[k].anns[1])
          /\ ops = DrawsOf(<<annotations[k].anns[2]>>, PageIndex(k))
          /\ ops # <<>>

(* what the loop over one page entry draws and logs *)
PageDraws(k) ==
    forEachAnn(annotations[k].anns, 1, PageIndex(k), PageSize(PageIndex(k)))

RECURSIVE InRangeDraws(_)
InRangeDraws(ks) ==
    IF ks = <<>> THEN <<>>
    ELSE (IF Drawable(Head(ks)) THEN PageDraws(Head(ks)).ops ELSE <<>>)
             \o InRangeDraws(Tail(ks))

\* C8: a key whose page number is 0, negative, not a number or past the
\* last page draws nothing and raises no error; the annotations of the keys
\* within [1, page count] are rendered on page (number - 1).
C8_OutOfRangeIgnored ==
    /\ Rendering =>
          /\ \A i \in 1..Len(ops) : ops[i].page >= 0 /\ ops[i].page < pageCount
          /\ ops = InRangeDraws(Visited)
    /\ RenderFailed => PageNumberInRange(Keys[keyPos])
    /\ Sent => Visited = Keys

C8_Witness ==
    /\ Sent
    /\ \E k \in DOMAIN annotations :
          /\ ~PageNumberInRange(k)
          /\ annotations[k].isArray
          /\ DrawsOf(annotations[k].anns, 0) # <<>>
    /\ \E k \in DOMAIN annotations :
          /\ PageNumberInRange(k)
          /\ ops # <<>>
          /\ \A i \in 1..Len(ops) : ops[i].page = PageIndex(k)

\* C9: the rendering as a whole fails only when the base document cannot be
\* fetched / loaded or the font cannot be embedded; nothing in the
\* annotation map makes it fail.
C9_OnlyStructuralFailure ==
    (dpc = "done" /\ response.status = 500) =>
        response.body \in {"Failed to fetch original PDF", "load failed", "font failed"}

RECURSIVE SoundDraws(_)
SoundDraws(ks) ==
    IF ks = <<>> THEN <<>>
    ELSE (IF Drawable(Head(ks))
          THEN DrawsOf(SelectSeq(annotations[Head(ks)].anns, NotDegenerate), PageIndex(Head(ks)))
          ELSE <<>>) \o SoundDraws(Tail(ks))

FailsSound(ann) == NotDegenerate(ann) /\ FailsToDraw(ann)

RECURSIVE SoundFailureCount(_)
SoundFailureCount(ks) ==
    IF ks = <<>> THEN 0
    ELSE (IF Drawable(Head(ks))
          THEN Len(SelectSeq(annotations[Head(ks)].anns, FailsSound))
          ELSE 0) + SoundFailureCount(Tail(ks))

\* C10: a path annotation with no points field, no point or one point
\* issues no drawing operation and no error, and the annotations after it
\* are processed as if it were not there.
C10_DegeneratePathSkipped ==
    Rendering =>
        /\ ops = SoundDraws(Visited)
        /\ annErrors = SoundFailureCount(Visited)

C10_Witness ==
    /\ Sent
    /\ \E k \in DOMAIN annotations :
          /\ Drawable(k)
          /\ Len(annotations[k].anns) = 2
          /\ Degenerate(annotations[k].anns[1])
          /\ ops = DrawsOf(<<annotations[k].anns[2]>>, PageIndex(k))
          /\ ops # <<>>
    /\ annErrors = 0

-----------------------------------------------------------------------------
(* the font size a text annotation is drawn with: its size, 12 by default *)
FontSize(ann) == IF Has(ann.size) /\ Val(ann.size) # 0 THEN Val(ann.size) ELSE 12

IsTextOp(o) == o.op = "drawText"

DrawnText(ann) == ann.type = "text" /\ ann.text # "" /\ Survives(ann)

(* where the text annotation ann is expected on page number page + 1 *)
TextPlace(ann, page) ==
    LET W == PageSize(page).width
        H == PageSize(page).height
    IN  [page |-> page,
         x |-> (ann.x * W) \div Scale,
         y |-> H - ((ann.y * H) \div Scale) - (FontSize(ann) - 2)]

RECURSIVE TextPlacesOf(_, _)
TextPlacesOf(anns, page) ==
    IF anns = <<>> THEN <<>>
    ELSE (IF DrawnText(Head(anns)) THEN <<TextPlace(Head(anns), page)>> ELSE <<>>)
             \o TextPlacesOf(Tail(anns), page)

RECURSIVE TextPlaces(_)
TextPlaces(ks) ==
    IF ks = <<>> THEN <<>>
    ELSE (IF Drawable(Head(ks))
          THEN TextPlacesOf(annotations[Head(ks)].anns, PageIndex(Head(ks)))
          ELSE <<>>) \o TextPlaces(Tail(ks))

PlaceOf(o) == [page |-> o.page, x |-> o.x, y |-> o.y]

TextOps == SelectSeq(ops, IsTextOp)

\* C11: a text annotation at normalized origin (x, y) with font size s on a
\* page of width W and height H is drawn at (x*W, H - y*H - (s - 2)); at
\* x = 0, y = 0 that is (0, H - s + 2), in the upper half of the page.
C11_TextPosition ==
    Rendering =>
        /\ [i \in 1..Len(TextOps) |-> PlaceOf(TextOps[i])] = TextPlaces(Visited)
        /\ \A k \in DOMAIN annotations :
              \A i \in 1..Len(annotations[k].anns) :
                 LET ann == annotations[k].anns[i]
                     H   == PageSize(PageIndex(k)).height
                 IN  (Drawable(k) /\ DrawnText(ann) /\ ann.x = 0 /\ ann.y = 0) =>
                         /\ TextPlace(ann, PageIndex(k)).x = 0
                         /\ TextPlace(ann, PageIndex(k)).y = H - FontSize(ann) + 2
                         /\ 2 * TextPlace(ann, PageIndex(k)).y > H

C11_Witness ==
    /\ Sent
    /\ Len(ops) = 2
    /\ ops[1].x = 0 /\ ops[1].y = PageSize(ops[1].page).height - 10
    /\ ops[2].x > 0 /\ ops[2].y = ((PageSize(ops[2].page).height * 3) \div 4) - 18

\* C12: with an empty annotation map no drawing operation is performed on
\* any page, and a request that finds the sheet is answered with the stored
\* file itself (a redirect to it), never with a re-rendered document.
C12_EmptyMapUnchanged ==
    DOMAIN annotations = {} =>
        /\ ops = <<>>
        /\ dpc \in {"request", "done"}
        /\ dpc = "done" =>
              response \in {Reply(302, "file_url"), Reply(404, "File not found")}

C12_Witness ==
    /\ DOMAIN annotations = {}
    /\ dpc = "done"
    /\ response = Reply(302, "file_url")
    /\ ops = <<>>

-----------------------------------------------------------------------------
(* the log lines an invocation has written when it stands at frame f *)
LogLines(f) ==
    (IF f.epc = "done" /\ LinesOf(f.text) # <<>> THEN 1 ELSE 0)
    + (CASE f.dpc \in {"idle", "request"} -> 0
         [] f.dpc = "fetched" -> 2
         [] f.dpc = "render"  -> 2 + f.annErrors
         [] f.dpc = "done"    ->
               CASE f.response.status \in {404, 302} -> 0
                 [] f.response.status = 200 -> 2 + f.annErrors
                 [] OTHER -> 3 + f.annErrors)

RECURSIVE ParkedLogLines(_)
ParkedLogLines(fs) ==
    IF fs = <<>> THEN 0 ELSE LogLines(Head(fs)) + ParkedLogLines(Tail(fs))

\* C13 (as claimed): no step of an extraction or of a download changes any
\* state shared between invocations.
C13_NoSharedState == [][logBuffer' = logBuffer]_vars

\* C13 (amended): however the invocations interleave, the running one has
\* the result it has when run alone (the metadata of its own text, the
\* draws of its own annotation map on its own document), and the only
\* shared state is the log buffer, which holds one entry per log line of
\* the invocations and is read by none of them.
C13_SharedLogOnly ==
    /\ epc = "done" => meta = processSmartMetadata(text)
    /\ \A i \in 1..Len(parked) :
          parked[i].epc = "done" => parked[i].meta = processSmartMetadata(parked[i].text)
    /\ Rendering =>
          /\ ops = SurvivorDraws(Visited)
          /\ annErrors = FailureCount(Visited)
    /\ Sent => Visited = Keys
    /\ Len(logBuffer) = LogLines(frame) + ParkedLogLines(parked)

C13_Witness ==
    /\ dpc = "render" /\ keyPos > Len(Keys) /\ ops # <<>>
    /\ Len(parked) = 1
    /\ parked[1].dpc = "render" /\ parked[1].ops # <<>> /\ parked[1].ops # ops
    /\ Len(logBuffer) > 4

-----------------------------------------------------------------------------
(* the positions, among the pieces between the line breaks of t, of the    *)
(* pieces that are not blank *)
FilledPieces(t) == {i \in 1..Len(split(t, 10)) : trim(split(t, 10)[i]) # <<>>}

(* the n-th non-empty trimmed line of t, "" when there is none *)
NthLine(t, n) ==
    LET at == {i \in FilledPieces(t) : Cardinality({j \in FilledPieces(t) : j < i}) = n - 1}
    IN  IF at = {} THEN <<>> ELSE trim(split(t, 10)[CHOOSE i \in at : TRUE])

\* C14: the text-layer strategy returns title = the first non-empty trimmed
\* line, composer = the second one ("" when the line does not exist),
\* whatever the lines look like, and rawText = the input text unmodified.
C14_TextLayerStrategy ==
    epc \in {"done", "tested"} =>
        /\ meta.title = NthLine(text, 1)
        /\ meta.composer = NthLine(text, 2)
        /\ meta.rawText = text

C14_Witness ==
    /\ epc = "done"
    /\ meta.title # <<>> /\ ~isCleanLine(meta.title)
    /\ meta.composer # <<>> /\ hasLabelPrefix(meta.composer)
    /\ meta.rawText = text

-----------------------------------------------------------------------------
(***************************************************************************)
(* Part III : the handlers of the sheet library that read and write the    *)
(* database: deleting, sharing, reading and creating sheets.               *)
(*                                                                         *)
(* db holds the rows of the tables a handler touches; a handler in flight  *)
(* is a record of calls with the requester (req.user.id), the request      *)
(* parameters (arg), its position (pc), its locals (loc) and its reply.    *)
(* Every db.query and every storage call is awaited, so handlers of        *)
(* different requests interleave between them; one statement is one step.  *)
(* A statement fails only where a constraint of the schema makes it fail.  *)
(***************************************************************************)
MaxCalls == 2       \* requests in flight together

Null == "null"

VALID_PERMISSIONS == {"view", "annotate_self", "annotate_all", "full"}

(* LOWER(email) over the addresses used below *)
Lower(email) ==
    CASE email = "Bob@x.org" -> "bob@x.org"
      [] OTHER -> email

Call(kind, user, arg) ==
    [kind |-> kind, user |-> user, arg |-> arg, pc |-> "start",
     loc |-> <<>>, entitled |-> {}, reply |-> NoReply]

(* the handler c moves on to pc with the locals loc *)
Goto(c, pc, loc) ==
    calls' = [calls EXCEPT ![c].pc = pc, ![c].loc = loc]

(* the handler c answers and returns *)
Finish(c, status, body) ==
    calls' = [calls EXCEPT ![c].pc = "done", ![c].reply = Reply(status, body)]

At(c, kind, pc) == calls[c].kind = kind /\ calls[c].pc = pc

(* what a step of a library handler leaves alone *)
hvars == <<evars, dvars, parked>>

-----------------------------------------------------------------------------
(* The queries *)
sharesOf(d, sheetId, userId) ==
    {ss \in d.sheet_shares : ss.sheet_id = sheetId /\ ss.shared_with_user_id = userId}

accessRow(s, userId, permission) ==
    [id |-> s.id, storage_key |-> s.storage_key, user_id |-> s.user_id,
     is_owner |-> (s.user_id = userId), permission |-> permission]

(* SELECT ... FROM sheets s LEFT JOIN sheet_shares ss ON s.id = ss.sheet_id *)
(* AND ss.shared_with_user_id = $2 WHERE s.id = ANY($1) AND (s.user_id =   *)
(* $2 OR ss.shared_with_user_id = $2): a row per matching share, or one    *)
(* row with a null permission for an owner without a share                 *)
accessRows(d, ids, userId) ==
    UNION {IF sharesOf(d, s.id, userId) # {}
           THEN {accessRow(s, userId, ss.permission) : ss \in sharesOf(d, s.id, userId)}
           ELSE IF s.user_id = userId THEN {accessRow(s, userId, Null)} ELSE {}
           : s \in {x \in d.sheets : x.id \in ids}}

(* SELECT id FROM sheets WHERE id = $1 AND user_id = $2 *)
ownedSheets(d, sheetId, userId) ==
    {s \in d.sheets : s.id = sheetId /\ s.user_id = userId}

(* SELECT id, email FROM users WHERE LOWER(email) = LOWER($1) *)
usersByEmail(d, email) ==
    {u \in d.users : Lower(u.email) = Lower(email)}

(* DELETE FROM sheets WHERE id = $1, with the ON DELETE CASCADE of         *)
(* sheet_shares.sheet_id and sheet_folders.sheet_id                        *)
deleteSheetRow(d, sheetId) ==
    [d EXCEPT !.sheets        = {s \in @ : s.id # sheetId},
              !.sheet_shares  = {ss \in @ : ss.sheet_id # sheetId},
              !.sheet_folders = {sf \in @ : sf.sheet_id # sheetId}]

(* supabase.storage.remove([storageKey]) *)
removeFile(d, storageKey) == [d EXCEPT !.storage = @ \ {storageKey}]

(* the delete filter that lets every row of the access query through *)
deletable_anyShare(row) == TRUE

(* sheet.is_owner || sheet.permission === 'full' *)
deletable(row) == row.is_owner \/ row.permission = "full"

(* history, set when the access query runs: the sheets the requester then  *)
(* owned or held a share with permission 'full' on                         *)
entitledSheets(d, userId) ==
    {s.id : s \in {x \in d.sheets :
                      \/ x.user_id = userId
                      \/ \E ss \in d.sheet_shares :
                            /\ ss.sheet_id = x.id
                            /\ ss.shared_with_user_id = userId
                            /\ ss.permission = "full"}}

-----------------------------------------------------------------------------
(* DELETE /api/sheets/:id *)
DeleteCheck ==
    /\ \E c \in DOMAIN calls :
          /\ At(c, "delete", "start")
          /\ LET rows == accessRows(db, {calls[c].arg.id}, calls[c].user)
                 seen == entitledSheets(db, calls[c].user)
             IN  IF rows = {}
                 THEN Finish(c, 404, "Sheet not found")
                 ELSE \E row \in rows :
                         IF ~deletable(row)
                         THEN Finish(c, 403, "You do not have permission to delete this sheet")
                         ELSE calls' = [calls EXCEPT
                                 ![c].pc = IF row.storage_key # Null THEN "file" ELSE "row",
                                 ![c].loc = [storage_key |-> row.storage_key],
                                 ![c].entitled = seen]
    /\ UNCHANGED <<db, logBuffer>>
    /\ UNCHANGED hvars

DeleteFile ==
    /\ \E c \in DOMAIN calls :
          /\ At(c, "delete", "file")
          /\ LET said == consoleLog(logBuffer, "Deleting from Supabase Storage:", <<>>)
             IN  \E ok \in BOOLEAN :
                    IF ok
                    THEN /\ db' = removeFile(db, calls[c].loc.storage_key)
                         /\ logBuffer' = said
                         /\ Goto(c, "row", calls[c].loc)
                    ELSE /\ logBuffer' = consoleError(consoleError(said, "Supabase delete error:", <<>>),
                                                      "Delete sheet failed:", <<>>)
                         /\ Finish(c, 500, "storage error")
                         /\ UNCHANGED db
    /\ UNCHANGED hvars

DeleteRow ==
    /\ \E c \in DOMAIN calls :
          /\ At(c, "delete", "row")
          /\ db' = deleteSheetRow(db, calls[c].arg.id)
          /\ Finish(c, 204, "")
    /\ UNCHANGED logBuffer
    /\ UNCHANGED hvars

-----------------------------------------------------------------------------
(* POST /api/sheets/batch-delete.  The rows of the access query come in no *)
(* stated order: any order of the deletable rows is taken.                 *)
Orders(S) ==
    {o \in [1..Cardinality(S) -> S] : \A a, b \in 1..Cardinality(S) : o[a] = o[b] => a = b}

stageOf(row) == IF row.storage_key # Null THEN "file" ELSE "row"

BatchCheck ==
    /\ \E c \in DOMAIN calls :
          /\ At(c, "batch", "start")
          /\ LET ids  == calls[c].arg.ids
                 accessibleSheets == accessRows(db, {ids[n] : n \in 1..Len(ids)}, calls[c].user)
                 deletableSheets  == {row \in accessibleSheets : deletable(row)}
                 seen == entitledSheets(db, calls[c].user)
             IN  IF ids = <<>>
                 THEN Finish(c, 400, "No sheet IDs provided")
                 ELSE IF deletableSheets = {}
                      THEN Finish(c, 403, "You do not have permission to delete any of the selected sheets")
                      ELSE \E todo \in Orders(deletableSheets) :
                              calls' = [calls EXCEPT
                                  ![c].pc = stageOf(todo[1]),
                                  ![c].loc = [todo |-> todo, deletedIds |-> <<>>, errors |-> <<>>],
                                  ![c].entitled = seen]
    /\ UNCHANGED <<db, logBuffer>>
    /\ UNCHANGED hvars

(* the end of one iteration of the loop over deletableSheets: the next     *)
(* sheet, or res.json after the last one                                   *)
BatchNext(c, deletedIds, errors) ==
    LET rest == Tail(calls[c].loc.todo)
        loc  == [todo |-> rest, deletedIds |-> deletedIds, errors |-> errors]
    IN  IF rest = <<>>
        THEN calls' = [calls EXCEPT ![c].pc = "done", ![c].loc = loc,
                                    ![c].reply = Reply(200, "Successfully deleted")]
        ELSE Goto(c, stageOf(rest[1]), loc)

BatchFile ==
    /\ \E c \in DOMAIN calls :
          /\ At(c, "batch", "file")
          /\ LET sheet == calls[c].loc.todo[1]
                 said  == consoleLog(logBuffer, "Deleting from Supabase Storage:", <<>>)
             IN  \E ok \in BOOLEAN :
                    IF ok
                    THEN /\ db' = removeFile(db, sheet.storage_key)
                         /\ logBuffer' = said
                         /\ Goto(c, "row", calls[c].loc)
                    ELSE /\ logBuffer' = consoleError(consoleError(said, "Supabase delete error:", <<>>),
                                                      "Failed to delete sheet", <<>>)
                         /\ BatchNext(c, calls[c].loc.deletedIds,
                                      Append(calls[c].loc.errors, sheet.id))
                         /\ UNCHANGED db
    /\ UNCHANGED hvars

BatchRow ==
    /\ \E c \in DOMAIN calls :
          /\ At(c, "batch", "row")
          /\ LET sheet == calls[c].loc.todo[1]
             IN  /\ db' = deleteSheetRow(db, sheet.id)
                 /\ BatchNext(c, Append(calls[c].loc.deletedIds, sheet.id), calls[c].loc.errors)
    /\ UNCHANGED logBuffer
    /\ UNCHANGED hvars

-----------------------------------------------------------------------------
(* POST /api/sheets/:id/share *)

(* a unique constraint that is not there *)
violatesUnique_noConstraint(d, sheetId, userId) == FALSE

(* CONSTRAINT unique_sheet_share UNIQUE (sheet_id, shared_with_user_id) *)
violatesUnique(d, sheetId, userId) == sharesOf(d, sheetId, userId) # {}

(* sheet_id REFERENCES sheets(id), shared_with_user_id REFERENCES users(id) *)
violatesForeignKey(d, sheetId, userId) ==
    \/ ~\E s \in d.sheets : s.id = sheetId
    \/ ~\E u \in d.users : u.id = userId

(* const { email, permission = 'view' } = req.body *)
permissionOf(arg) == IF arg.permission = "undefined" THEN "view" ELSE arg.permission

ShareCheck ==
    /\ \E c \in DOMAIN calls :
          /\ At(c, "share", "start")
          /\ IF calls[c].arg.email = Null
             THEN Finish(c, 400, "Email is required")
             ELSE IF permissionOf(calls[c].arg) \notin VALID_PERMISSIONS
                  THEN Finish(c, 400, "Invalid permission level")
                  ELSE IF ownedSheets(db, calls[c].arg.id, calls[c].user) = {}
                       THEN Finish(c, 404, "Sheet not found or you do not own it")
                       ELSE Goto(c, "user", <<>>)
    /\ UNCHANGED <<db, logBuffer>>
    /\ UNCHANGED hvars

ShareUser ==
    /\ \E c \in DOMAIN calls :
          /\ At(c, "share", "user")
          /\ LET found == usersByEmail(db, calls[c].arg.email)
             IN  IF found = {}
                 THEN Finish(c, 404, "Email not registered to a user")
                 ELSE \E targetUser \in found :
                         IF targetUser.id = calls[c].user
                         THEN Finish(c, 400, "Cannot share a sheet with yourself")
                         ELSE Goto(c, "existing", [targetUser |-> targetUser.id])
    /\ UNCHANGED <<db, logBuffer>>
    /\ UNCHANGED hvars

ShareExisting ==
    /\ \E c \in DOMAIN calls :
          /\ At(c, "share", "existing")
          /\ IF sharesOf(db, calls[c].arg.id, calls[c].loc.targetUser) # {}
             THEN Finish(c, 409, "Sheet is already shared with this user")
             ELSE Goto(c, "insert", calls[c].loc)
    /\ UNCHANGED <<db, logBuffer>>
    /\ UNCHANGED hvars

ShareInsert ==
    /\ \E c \in DOMAIN calls :
          /\ At(c, "share", "insert")
          /\ LET sheetId == calls[c].arg.id
                 userId  == calls[c].loc.targetUser
             IN  IF violatesUnique(db, sheetId, userId) \/ violatesForeignKey(db, sheetId, userId)
                 THEN /\ logBuffer' = consoleError(logBuffer, "Share sheet failed:", <<>>)
                      /\ Finish(c, 500, "constraint")
                      /\ UNCHANGED db
                 ELSE /\ db' = [db EXCEPT
                             !.sheet_shares = @ \cup
                                 {[id |-> db.nextId, sheet_id |-> sheetId,
                                   shared_with_user_id |-> userId,
                                   shared_by_user_id |-> calls[c].user,
                                   permission |-> permissionOf(calls[c].arg)]},
                             !.nextId = @ + 1]
                      /\ Finish(c, 201, "Sheet shared successfully")
                      /\ UNCHANGED logBuffer
    /\ UNCHANGED hvars

-----------------------------------------------------------------------------
(* DELETE /api/sheets/:id/share *)
UnshareCheck ==
    /\ \E c \in DOMAIN calls :
          /\ At(c, "unshare", "start")
          /\ IF calls[c].arg.email = Null
             THEN Finish(c, 400, "Email is required")
             ELSE IF ownedSheets(db, calls[c].arg.id, calls[c].user) = {}
                  THEN Finish(c, 404, "Sheet not found or you do not own it")
                  ELSE Goto(c, "user", <<>>)
    /\ UNCHANGED <<db, logBuffer>>
    /\ UNCHANGED hvars

UnshareUser ==
    /\ \E c \in DOMAIN calls :
          /\ At(c, "unshare", "user")
          /\ LET found == usersByEmail(db, calls[c].arg.email)
             IN  IF found = {}
                 THEN Finish(c, 404, "Email not registered to a user")
                 ELSE \E targetUser \in found :
                         Goto(c, "delete", [targetUser |-> targetUser.id])
    /\ UNCHANGED <<db, logBuffer>>
    /\ UNCHANGED hvars

UnshareDelete ==
    /\ \E c \in DOMAIN calls :
          /\ At(c, "unshare", "delete")
          /\ LET gone == sharesOf(db, calls[c].arg.id, calls[c].loc.targetUser)
             IN  /\ db' = [db EXCEPT !.sheet_shares = @ \ gone]
                 /\ IF gone = {} THEN Finish(c, 404, "Share not found")
                    ELSE Finish(c, 200, "Share removed successfully")
    /\ UNCHANGED logBuffer
    /\ UNCHANGED hvars

-----------------------------------------------------------------------------
(* The library at the start of the deletion runs: ann owns s1 (stored as   *)
(* k1), bob owns s2 (registered without a file), and s1 is shared with bob *)
(* with one of the four permissions, or not at all.                        *)
LibraryIdle ==
    /\ ExtractIdle
    /\ DownloadIdle
    /\ logBuffer = <<>>
    /\ parked = <<>>

UserRows ==
    {[id |-> "ann", email |-> "ann@x.org"], [id |-> "bob", email |-> "bob@x.org"]}

SheetRow(id, userId, storageKey, fileHash) ==
    [id |-> id, user_id |-> userId, storage_key |-> storageKey, file_hash |-> fileHash]

ShareRow(id, sheetId, userId, byUserId, permission) ==
    [id |-> id, sheet_id |-> sheetId, shared_with_user_id |-> userId,
     shared_by_user_id |-> byUserId, permission |-> permission]

TwoSheets ==
    [NoDb EXCEPT !.users   = UserRows,
                 !.sheets  = {SheetRow("s1", "ann", "k1", "h1"), SheetRow("s2", "bob", Null, Null)},
                 !.storage = {"k1"}]

SharedWithBob(p) ==
    [TwoSheets EXCEPT !.sheet_shares = {ShareRow(1, "s1", "bob", "ann", p)}, !.nextId = 2]

SharingDbs == {TwoSheets} \cup {SharedWithBob(p) : p \in VALID_PERMISSIONS}

DeleteMenu ==
    {Call("delete", "bob", [id |-> "s1"]),
     Call("delete", "ann", [id |-> "s1"]),
     Call("batch", "bob", [ids |-> <<"s1", "s2">>]),
     Call("batch", "bob", [ids |-> <<>>]),
     Call("share", "ann", [id |-> "s1", email |-> "Bob@x.org", permission |-> "full"]),
     Call("share", "ann", [id |-> "s1", email |-> "bob@x.org", permission |-> "undefined"]),
     Call("unshare", "ann", [id |-> "s1", email |-> "bob@x.org"])}

InitDelete ==
    /\ LibraryIdle
    /\ db \in SharingDbs
    /\ calls \in [1..MaxCalls -> DeleteMenu]

NextDelete ==
    \/ DeleteCheck
    \/ DeleteFile
    \/ DeleteRow
    \/ BatchCheck
    \/ BatchFile
    \/ BatchRow
    \/ ShareCheck
    \/ ShareUser
    \/ ShareExisting
    \/ ShareInsert
    \/ UnshareCheck
    \/ UnshareUser
    \/ UnshareDelete

SpecDelete == InitDelete /\ [][NextDelete]_vars

-----------------------------------------------------------------------------
SheetIds(d) == {s.id : s \in d.sheets}

(* the stored files of the sheets ids *)
FilesOf(d, ids) == {s.storage_key : s \in {x \in d.sheets : x.id \in ids}}

-----------------------------------------------------------------------------
(* Folder sharing and the handlers that read sheets *)
folderSharesOf(d, folderId, userId) ==
    {fs \in d.folder_shares : fs.folder_id = folderId /\ fs.shared_with_user_id = userId}

(* SELECT id FROM folders WHERE id = $1 AND user_id = $2 *)
ownedFolders(d, folderId, userId) ==
    {f \in d.folders : f.id = folderId /\ f.user_id = userId}

(* EXISTS (SELECT 1 FROM sheet_folders sf JOIN folder_shares fs ON          *)
(* sf.folder_id = fs.folder_id WHERE sf.sheet_id = s.id AND                *)
(* fs.shared_with_user_id = $1)                                            *)
inSharedFolder(d, sheetId, userId) ==
    \E sf \in d.sheet_folders : \E fs \in d.folder_shares :
        /\ sf.sheet_id = sheetId
        /\ sf.folder_id = fs.folder_id
        /\ fs.shared_with_user_id = userId

(* the WHERE clause of GET /api/sheets without its optional filters *)
listRows(d, userId) ==
    {s \in d.sheets :
        \/ s.user_id = userId
        \/ sharesOf(d, s.id, userId) # {}
        \/ inSharedFolder(d, s.id, userId)}

(* WHERE s.id = $1 AND (s.user_id = $2 OR ss.shared_with_user_id = $2), the *)
(* query of GET /api/sheets/:id, /download and /pdf                        *)
readRows(d, sheetId, userId) ==
    {s \in d.sheets :
        /\ s.id = sheetId
        /\ (s.user_id = userId \/ sharesOf(d, s.id, userId) # {})}

(* POST /api/folders/:id/share *)
ShareFolderCheck ==
    /\ \E c \in DOMAIN calls :
          /\ At(c, "shareFolder", "start")
          /\ IF calls[c].arg.email = Null
             THEN Finish(c, 400, "Email is required")
             ELSE IF permissionOf(calls[c].arg) \notin VALID_PERMISSIONS
                  THEN Finish(c, 400, "Invalid permission level")
                  ELSE IF ownedFolders(db, calls[c].arg.id, calls[c].user) = {}
                       THEN Finish(c, 404, "Folder not found or you do not own it")
                       ELSE Goto(c, "user", <<>>)
    /\ UNCHANGED <<db, logBuffer>>
    /\ UNCHANGED hvars

ShareFolderUser ==
    /\ \E c \in DOMAIN calls :
          /\ At(c, "shareFolder", "user")
          /\ LET found == usersByEmail(db, calls[c].arg.email)
             IN  IF found = {}
                 THEN Finish(c, 404, "Email not registered to a user")
                 ELSE \E targetUser \in found :
                         IF targetUser.id = calls[c].user
                         THEN Finish(c, 400, "Cannot share with yourself")
                         ELSE Goto(c, "existing", [targetUser |-> targetUser.id])
    /\ UNCHANGED <<db, logBuffer>>
    /\ UNCHANGED hvars

ShareFolderExisting ==
    /\ \E c \in DOMAIN calls :
          /\ At(c, "shareFolder", "existing")
          /\ IF folderSharesOf(db, calls[c].arg.id, calls[c].loc.targetUser) # {}
             THEN Finish(c, 409, "Folder already shared with this user")
             ELSE Goto(c, "insert", calls[c].loc)
    /\ UNCHANGED <<db, logBuffer>>
    /\ UNCHANGED hvars

(* the INSERT fails on unique_folder_share and on a folder deleted since *)
ShareFolderInsert ==
    /\ \E c \in DOMAIN calls :
          /\ At(c, "shareFolder", "insert")
          /\ LET folderId == calls[c].arg.id
                 userId   == calls[c].loc.targetUser
             IN  IF \/ folderSharesOf(db, folderId, userId) # {}
                    \/ ~\E f \in db.folders : f.id = folderId
                 THEN /\ logBuffer' = consoleError(logBuffer, "Share folder failed:", <<>>)
                      /\ Finish(c, 500, "constraint")
                      /\ UNCHANGED db
                 ELSE /\ db' = [db EXCEPT
                             !.folder_shares = @ \cup
                                 {[id |-> db.nextId, folder_id |-> folderId,
                                   shared_with_user_id |-> userId,
                                   shared_by_user_id |-> calls[c].user,
                                   permission |-> permissionOf(calls[c].arg)]},
                             !.nextId = @ + 1]
                      /\ Finish(c, 201, "Folder shared successfully")
                      /\ UNCHANGED logBuffer
    /\ UNCHANGED hvars

(* DELETE /api/folders/:id/share *)
UnshareFolderCheck ==
    /\ \E c \in DOMAIN calls :
          /\ At(c, "unshareFolder", "start")
          /\ IF calls[c].arg.email = Null
             THEN Finish(c, 400, "Email is required")
             ELSE IF ownedFolders(db, calls[c].arg.id, calls[c].user) = {}
                  THEN Finish(c, 404, "Folder not found or access denied")
                  ELSE Goto(c, "user", <<>>)
    /\ UNCHANGED <<db, logBuffer>>
    /\ UNCHANGED hvars

UnshareFolderUser ==
    /\ \E c \in DOMAIN calls :
          /\ At(c, "unshareFolder", "user")
          /\ LET found == usersByEmail(db, calls[c].arg.email)
             IN  IF found = {}
                 THEN Finish(c, 404, "User not found")
                 ELSE \E targetUser \in found :
                         Goto(c, "delete", [targetUser |-> targetUser.id])
    /\ UNCHANGED <<db, logBuffer>>
    /\ UNCHANGED hvars

UnshareFolderDelete ==
    /\ \E c \in DOMAIN calls :
          /\ At(c, "unshareFolder", "delete")
          /\ db' = [db EXCEPT !.folder_shares =
                       @ \ folderSharesOf(db, calls[c].arg.id, calls[c].loc.targetUser)]
          /\ Finish(c, 200, "Share removed")
    /\ UNCHANGED logBuffer
    /\ UNCHANGED hvars

(* GET /api/sheets: loc.rows are the ids of the rows sent.  loc.shared is  *)
(* history: the sheets that lay in a folder shared with the requester when *)
(* the query ran.                                                          *)
sharedByFolder(d, userId) == {s.id : s \in {x \in d.sheets : inSharedFolder(d, x.id, userId)}}

ListSheets ==
    /\ \E c \in DOMAIN calls :
          /\ At(c, "list", "start")
          /\ calls' = [calls EXCEPT
                 ![c].pc = "done",
                 ![c].loc = [rows |-> {s.id : s \in listRows(db, calls[c].user)},
                             shared |-> sharedByFolder(db, calls[c].user)],
                 ![c].reply = Reply(200, "rows")]
    /\ UNCHANGED <<db, logBuffer>>
    /\ UNCHANGED hvars

(* GET /api/sheets/:id *)
GetSheet ==
    /\ \E c \in DOMAIN calls :
          /\ At(c, "get", "start")
          /\ calls' = [calls EXCEPT
                 ![c].pc = "done",
                 ![c].loc = [shared |-> sharedByFolder(db, calls[c].user)],
                 ![c].reply = IF readRows(db, calls[c].arg.id, calls[c].user) = {}
                              THEN Reply(404, "Sheet not found")
                              ELSE Reply(200, "row")]
    /\ UNCHANGED <<db, logBuffer>>
    /\ UNCHANGED hvars

(* GET /api/sheets/:id/download of a sheet of the library, whose           *)
(* annotations column is null: the stored file or 404                      *)
DownloadSheet ==
    /\ \E c \in DOMAIN calls :
          /\ At(c, "download", "start")
          /\ LET rows == readRows(db, calls[c].arg.id, calls[c].user)
             IN  calls' = [calls EXCEPT
                    ![c].pc = "done",
                    ![c].loc = [shared |-> sharedByFolder(db, calls[c].user)],
                    ![c].reply = IF rows = {} \/ \A s \in rows : s.storage_key = Null
                                 THEN Reply(404, "File not found")
                                 ELSE Reply(302, "file_url")]
    /\ UNCHANGED <<db, logBuffer>>
    /\ UNCHANGED hvars

(* GET /api/sheets/:id/pdf *)
PdfQuery ==
    /\ \E c \in DOMAIN calls :
          /\ At(c, "pdf", "start")
          /\ LET rows == readRows(db, calls[c].arg.id, calls[c].user)
                 loc  == [shared |-> sharedByFolder(db, calls[c].user)]
             IN  IF rows = {} \/ \A s \in rows : s.storage_key = Null
                 THEN calls' = [calls EXCEPT ![c].pc = "done", ![c].loc = loc,
                                             ![c].reply = Reply(404, "File not found")]
                 ELSE Goto(c, "fetch", loc)
    /\ UNCHANGED <<db, logBuffer>>
    /\ UNCHANGED hvars

PdfFetch ==
    /\ \E c \in DOMAIN calls :
          /\ At(c, "pdf", "fetch")
          /\ \E ok \in BOOLEAN :
                IF ok
                THEN Finish(c, 200, "pdf") /\ UNCHANGED logBuffer
                ELSE /\ Finish(c, 500, "fetch failed")
                     /\ logBuffer' = consoleError(logBuffer, "PDF proxy failed:", <<>>)
    /\ UNCHANGED db
    /\ UNCHANGED hvars

(* ann owns s1, which lies in her folder f1; f1 is shared with bob or not *)
FolderDb ==
    [NoDb EXCEPT !.users = UserRows,
                 !.sheets = {SheetRow("s1", "ann", "k1", "h1")},
                 !.storage = {"k1"},
                 !.folders = {[id |-> "f1", user_id |-> "ann"]},
                 !.sheet_folders = {[sheet_id |-> "s1", folder_id |-> "f1"]}]

FolderSharedWithBob ==
    [FolderDb EXCEPT
        !.folder_shares = {[id |-> 1, folder_id |-> "f1", shared_with_user_id |-> "bob",
                            shared_by_user_id |-> "ann", permission |-> "view"]},
        !.nextId = 2]

AccessMenu ==
    {Call("list", "bob", <<>>),
     Call("get", "bob", [id |-> "s1"]),
     Call("get", "ann", [id |-> "s1"]),
     Call("download", "bob", [id |-> "s1"]),
     Call("pdf", "bob", [id |-> "s1"]),
     Call("pdf", "ann", [id |-> "s1"]),
     Call("shareFolder", "ann", [id |-> "f1", email |-> "bob@x.org", permission |-> "undefined"]),
     Call("unshareFolder", "ann", [id |-> "f1", email |-> "Bob@x.org"])}

InitAccess ==
    /\ LibraryIdle
    /\ db \in {FolderDb, FolderSharedWithBob}
    /\ calls \in [1..MaxCalls -> AccessMenu]

NextAccess ==
    \/ ShareFolderCheck
    \/ ShareFolderUser
    \/ ShareFolderExisting
    \/ ShareFolderInsert
    \/ UnshareFolderCheck
    \/ UnshareFolderUser
    \/ UnshareFolderDelete
    \/ ListSheets
    \/ GetSheet
    \/ DownloadSheet
    \/ PdfQuery
    \/ PdfFetch

SpecAccess == InitAccess /\ [][NextAccess]_vars

-----------------------------------------------------------------------------
Answered(c) == calls[c].pc = "done"

\* C16: a sheet that lies in a folder shared with the requester when the
\* request is served is listed by GET /api/sheets and is retrieved by
\* GET /api/sheets/:id, /api/sheets/:id/download and /api/sheets/:id/pdf.
C16_FolderShareGivesAccess ==
    \A c \in DOMAIN calls :
        Answered(c) =>
            /\ calls[c].kind = "list" => calls[c].loc.shared \subseteq calls[c].loc.rows
            /\ (calls[c].kind \in {"get", "download", "pdf"}
                    /\ calls[c].arg.id \in calls[c].loc.shared)
                   => calls[c].reply.status # 404

-----------------------------------------------------------------------------
(* POST /api/sheets *)
(* SELECT id, title, composer FROM sheets WHERE file_hash = $1 AND user_id = $2 *)
dupCheck(d, fileHash, userId) ==
    {s \in d.sheets : s.file_hash = fileHash /\ s.user_id = userId}

(* the id the database gives the row and the name uploadFile gives the file *)
newSheetId(n) == "n" \o ToString(n)

newFileName(n) == "k" \o ToString(n)

(* arg.hash is the SHA-256 of req.file, Null when the request has no file *)
CreateCheck ==
    /\ \E c \in DOMAIN calls :
          /\ At(c, "create", "start")
          /\ IF calls[c].arg.hash = Null
             THEN Goto(c, "insert", [storageKey |-> Null])
             ELSE IF dupCheck(db, calls[c].arg.hash, calls[c].user) # {}
                  THEN Finish(c, 409, "Duplicate file content detected")
                  ELSE Goto(c, "upload", <<>>)
    /\ logBuffer' = consoleLog(logBuffer, "Create sheet - req.file:", <<>>)
    /\ UNCHANGED db
    /\ UNCHANGED hvars

(* uploadFile; its failure is caught and the sheet is created without file *)
CreateUpload ==
    /\ \E c \in DOMAIN calls :
          /\ At(c, "create", "upload")
          /\ \E ok \in BOOLEAN :
                LET began == consoleLog(consoleLog(logBuffer,
                                 "Uploading to Supabase Storage:", <<>>),
                                 "Uploading to Supabase Storage:", <<>>)
                IN  IF ok
                    THEN /\ db' = [db EXCEPT !.storage = @ \cup {newFileName(db.nextId)},
                                             !.nextId = @ + 1]
                         /\ Goto(c, "insert", [storageKey |-> newFileName(db.nextId)])
                         /\ logBuffer' = consoleLog(consoleLog(began,
                                "Upload success:", <<>>), "Upload success:", <<>>)
                    ELSE /\ Goto(c, "insert", [storageKey |-> Null])
                         /\ logBuffer' = consoleError(consoleError(began,
                                "Supabase upload error:", <<>>), "Storage upload failed:", <<>>)
                         /\ UNCHANGED db
    /\ UNCHANGED hvars

(* INSERT INTO sheets (...) of a request without genre, folders or instrument *)
CreateInsert ==
    /\ \E c \in DOMAIN calls :
          /\ At(c, "create", "insert")
          /\ db' = [db EXCEPT
                 !.sheets = @ \cup {SheetRow(newSheetId(db.nextId), calls[c].user,
                                             calls[c].loc.storageKey, calls[c].arg.hash)},
                 !.nextId = @ + 1]
          /\ Finish(c, 201, "created")
    /\ UNCHANGED logBuffer
    /\ UNCHANGED hvars

UploadMenu ==
    {Call("create", "ann", [hash |-> "h1"]),
     Call("create", "ann", [hash |-> "h2"]),
     Call("create", "bob", [hash |-> "h1"]),
     Call("create", "ann", [hash |-> Null])}

InitUpload ==
    /\ LibraryIdle
    /\ db = TwoSheets
    /\ calls \in [1..MaxCalls -> UploadMenu]

NextUpload ==
    \/ CreateCheck
    \/ CreateUpload
    \/ CreateInsert

SpecUpload == InitUpload /\ [][NextUpload]_vars

-----------------------------------------------------------------------------
\* C17: no user owns two sheets with the same non-null file_hash, also when
\* two uploads of the same content by that user are processed concurrently.
C17_NoDuplicateHash ==
    \A s, t \in db.sheets :
        (s.user_id = t.user_id /\ s.file_hash # Null /\ s.file_hash = t.file_hash)
            => s.id = t.id

-----------------------------------------------------------------------------
(* POST /api/auth/forgot-password *)
(* SELECT id FROM users WHERE email = $1, with email.toLowerCase() *)
usersWithEmail(d, email) == {u \in d.users : u.email = Lower(email)}

forgotUnknown_notFound == Reply(404, "User not found")

(* the answer for an email no user has *)
forgotUnknown == Reply(200, "If an account exists, a reset link will be sent")

(* the answer after the token was made and the mail sent, logged or lost *)
forgotKnown == Reply(200, "If an account exists, a reset link will be sent")

(* the handler c answers; loc keeps as history whether the query failed and *)
(* whether it found a user                                                 *)
Answer(c, reply, dbError, registered) ==
    calls' = [calls EXCEPT ![c].pc = "done", ![c].reply = reply,
                           ![c].loc = [dbError |-> dbError, registered |-> registered]]

(* the query succeeds or throws; resend is set when RESEND_API_KEY is *)
ForgotQuery ==
    /\ \E c \in DOMAIN calls :
          /\ At(c, "forgot", "start")
          /\ IF calls[c].arg.email = Null
             THEN /\ Answer(c, Reply(400, "Email is required"), FALSE, FALSE)
                  /\ UNCHANGED logBuffer
             ELSE \E ok \in BOOLEAN, resend \in BOOLEAN :
                     IF ~ok
                     THEN /\ Answer(c, Reply(500, "Failed to process request"), TRUE, FALSE)
                          /\ logBuffer' = consoleError(logBuffer, "Forgot password error:", <<>>)
                     ELSE IF usersWithEmail(db, calls[c].arg.email) = {}
                          THEN /\ Answer(c, forgotUnknown, FALSE, FALSE)
                               /\ UNCHANGED logBuffer
                          ELSE IF resend
                               THEN /\ Goto(c, "send", <<>>)
                                    /\ UNCHANGED logBuffer
                               ELSE /\ Answer(c, forgotKnown, FALSE, TRUE)
                                    /\ logBuffer' = consoleLog(consoleLog(logBuffer,
                                           "[DEV] Password reset token for", <<>>),
                                           "[DEV] Reset URL:", <<>>)
    /\ UNCHANGED db
    /\ UNCHANGED hvars

(* resend.emails.send, whose failure is caught and logged *)
ForgotSend ==
    /\ \E c \in DOMAIN calls :
          /\ At(c, "forgot", "send")
          /\ Answer(c, forgotKnown, FALSE, TRUE)
          /\ \E sent \in BOOLEAN :
                logBuffer' = IF sent
                             THEN consoleLog(logBuffer, "Password reset email sent to", <<>>)
                             ELSE consoleError(logBuffer, "Failed to send reset email:", <<>>)
    /\ UNCHANGED db
    /\ UNCHANGED hvars

ForgotMenu ==
    {Call("forgot", "nobody", [email |-> "bob@x.org"]),
     Call("forgot", "nobody", [email |-> "Bob@x.org"]),
     Call("forgot", "nobody", [email |-> "eve@x.org"]),
     Call("forgot", "nobody", [email |-> Null])}

InitForgot ==
    /\ LibraryIdle
    /\ db = [NoDb EXCEPT !.users = UserRows]
    /\ calls \in [1..MaxCalls -> ForgotMenu]

NextForgot ==
    \/ ForgotQuery
    \/ ForgotSend

SpecForgot == InitForgot /\ [][NextForgot]_vars

-----------------------------------------------------------------------------
Submitted(c) ==
    Answered(c) /\ calls[c].kind = "forgot" /\ calls[c].arg.email # Null
        /\ ~calls[c].loc.dbError

SendFailed ==
    \E i \in DOMAIN logBuffer : logBuffer[i].message = "Failed to send reset email:"

\* C18: two forgot-password requests that submitted an email and met no
\* database error get the same status and body, whether or not the email
\* belongs to a user and whether or not the reset mail could be sent.
C18_ForgotRevealsNothing ==
    \A c, d \in DOMAIN calls :
        (Submitted(c) /\ Submitted(d)) => calls[c].reply = calls[d].reply

C18_Witness ==
    \E c, d \in DOMAIN calls :
        /\ Submitted(c) /\ Submitted(d)
        /\ calls[c].loc.registered
        /\ ~calls[d].loc.registered
        /\ SendFailed
        /\ calls[c].reply = calls[d].reply
        /\ calls[d].reply.status = 200

-----------------------------------------------------------------------------
OneSharePerPair ==
    \A a, b \in db.sheet_shares :
        (a.sheet_id = b.sheet_id /\ a.shared_with_user_id = b.shared_with_user_id)
            => a = b

AlreadyShared(c) ==
    \E u \in usersByEmail(db, calls[c].arg.email) : sharesOf(db, calls[c].arg.id, u.id) # {}

\* C19: there is never more than one sheet_shares row for a sheet and a
\* recipient, also when two share requests for the pair run concurrently,
\* and no step of a share request for a pair that is already shared changes
\* the sheet_shares table.
C19_OneSharePerPair ==
    /\ []OneSharePerPair
    /\ [][\A c \in DOMAIN calls :
             (calls[c].kind = "share" /\ calls'[c] # calls[c] /\ AlreadyShared(c))
                 => db'.sheet_shares = db.sheet_shares]_vars

C19_Witness ==
    \E c, d \in DOMAIN calls :
        /\ calls[c].kind = "share" /\ calls[c].reply.status = 201
        /\ calls[d].kind = "share" /\ calls[d].reply.status = 500
        /\ calls[c].arg.id = calls[d].arg.id
        /\ \E ss \in db.sheet_shares :
              /\ sharesOf(db, "s1", "bob") = {ss}
              /\ ss.permission = permissionOf(calls[c].arg)
              /\ ss.permission # permissionOf(calls[d].arg)

-----------------------------------------------------------------------------
MusicLines == {i \in DOMAIN LinesOf(text) : musicMatch(LinesOf(text)[i]).found}

MusicName(i) == trim(musicMatch(LinesOf(text)[i]).cap)

MusicNamed == {i \in MusicLines : MusicName(i) # <<>>}

LyricsLines == {i \in DOMAIN LinesOf(text) : lyricsMatch(LinesOf(text)[i]).found}

LyricsName(i) == trim(lyricsMatch(LinesOf(text)[i]).cap)

LyricsNamed == {i \in LyricsLines : LyricsName(i) # <<>>}

\* C20 (as stated): if some line matches the Mousiki pattern with a
\* non-empty name, the composer is the name of the first such line; if no
\* line matches Mousiki, a Stichoi name is the composer and it is the name
\* of the first Stichoi-matching line.
C20_MusicNameWins ==
    epc = "done" =>
        /\ MusicNamed # {} => meta.composer = MusicName(Min(MusicNamed))
        /\ (MusicLines = {} /\ LyricsNamed # {})
               => meta.composer = LyricsName(Min(LyricsLines))

\* C20 (amended): the label search ends at the first line that matches the
\* Mousiki pattern, named or not: a non-empty trimmed capture of that line
\* is the composer, an empty one leaves the composer to the positional
\* fallback whatever the other lines hold.  If no line matches Mousiki, the
\* composer is the name of the first Stichoi-matching line whose trimmed
\* capture is non-empty.
C20_FirstMusicLineDecides ==
    epc = "done" =>
        /\ MusicLines # {} =>
              meta.composer = (IF MusicName(Min(MusicLines)) # <<>>
                               THEN MusicName(Min(MusicLines))
                               ELSE positionalComposer(LinesOf(text), meta.title))
        /\ (MusicLines = {} /\ LyricsNamed # {})
               => meta.composer = LyricsName(Min(LyricsNamed))

C20_Witness ==
    /\ epc = "done"
    /\ text = EmptyMusicExample
    /\ MusicLines = {1, 2}
    /\ MusicNamed = {2}
    /\ meta.composer = Mousiki \o COLON \o Bach

-----------------------------------------------------------------------------
(* the label patterns yield no composer *)
LabelsYieldNothing ==
    IF MusicLines # {} THEN MusicName(Min(MusicLines)) = <<>> ELSE LyricsNamed = {}

CleanLines == {i \in DOMAIN LinesOf(text) : PassesCleanTest(LinesOf(text)[i])}

(* the clean lines after the first clean line that differ from the title   *)
(* and have length >= 3                                                    *)
FallbackLines ==
    {i \in CleanLines :
        /\ i > Min(CleanLines)
        /\ LinesOf(text)[i] # meta.title
        /\ Len(LinesOf(text)[i]) >= 3}

\* C21: when the label patterns yield no composer, the composer is the first
\* clean line after the first clean line of the input that differs from the
\* selected title and has length >= 3, or "" if there is none; a composer
\* chosen this way never equals the title.
C21_PositionalFallback ==
    (epc = "done" /\ LabelsYieldNothing) =>
        /\ meta.composer = (IF FallbackLines = {} THEN <<>>
                            ELSE LinesOf(text)[Min(FallbackLines)])
        /\ meta.composer # <<>> => meta.composer # meta.title

C21_Witness ==
    /\ epc = "done"
    /\ LabelsYieldNothing
    /\ CleanLines = {1, 2, 3}
    /\ FallbackLines = {3}
    /\ LinesOf(text)[2] = meta.title
    /\ meta.composer = LinesOf(text)[3]

-----------------------------------------------------------------------------
TitleLines ==
    {i \in DOMAIN LinesOf(text) :
        /\ PassesCleanTest(LinesOf(text)[i])
        /\ ~HasLabelPrefix(LinesOf(text)[i])
        /\ Len(LinesOf(text)[i]) >= 4}

\* C22: the title is the first line that passes the clean-line test, does
\* not start with a label prefix (ignoring case) and has length >= 4; it is
\* "" if no line qualifies.
C22_TitleSelection ==
    epc = "done" =>
        meta.title = (IF TitleLines = {} THEN <<>> ELSE LinesOf(text)[Min(TitleLines)])

C22_Witness ==
    /\ epc = "done"
    /\ text = LowerCaseLabelExample
    /\ TitleLines = {2}
    /\ PassesCleanTest(LinesOf(text)[1])
    /\ Len(LinesOf(text)[1]) >= 4
    /\ meta.title = Bach

-----------------------------------------------------------------------------
(* the point (x, y) of a page converted to (x*W, H - y*H) *)
Converted(p, page) ==
    [x |-> (p.x * PageSize(page).width) \div Scale,
     y |-> PageSize(page).height - ((p.y * PageSize(page).height) \div Scale)]

Segment(o) == [page |-> o.page, start |-> o.start, end |-> o.end]

(* the n - 1 segments of a path annotation whose n points are all numeric *)
SegmentsOf(ann, page) ==
    [i \in 1..(Len(ann.points) - 1) |->
        [page |-> page, start |-> Converted(ann.points[i], page),
         end |-> Converted(ann.points[i + 1], page)]]

AllNumeric(ann) == \A i \in 1..Len(ann.points) : DOMAIN ann.points[i] = {"x", "y"}

(* segs is made of all the segments of an annotation or of none of them,   *)
(* annotation after annotation                                             *)
RECURSIVE AllOrNone(_, _, _)
AllOrNone(anns, page, segs) ==
    IF anns = <<>> THEN segs = <<>>
    ELSE \/ AllOrNone(Tail(anns), page, segs)
         \/ /\ AllNumeric(Head(anns))
            /\ LET all == SegmentsOf(Head(anns), page)
               IN  /\ Len(segs) >= Len(all)
                   /\ SubSeq(segs, 1, Len(all)) = all
                   /\ AllOrNone(Tail(anns), page, SubSeq(segs, Len(all) + 1, Len(segs)))

\* C23: a path annotation with n >= 2 points is drawn as its n - 1 segments
\* in order, segment i from converted point i to converted point i + 1, and
\* is never partially drawn: all of its segments are on the page or none.
C23_PathWholeOrNothing ==
    (Rendering /\ keyPos > 1) =>
        AllOrNone(annotations[Keys[1]].anns, PageIndex(Keys[1]),
                  [i \in 1..Len(ops) |-> Segment(ops[i])])

-----------------------------------------------------------------------------
(* the colour payload is text that is not JSON *)
Unparseable(ann) == Has(ann.color) /\ Val(ann.color) = NotJson

(* the colour payload is JSON that is not an RGB triple *)
NotRgbTriple(ann) == Has(ann.color) /\ Val(ann.color) = EmptyJson

WellColoured(ann) == ~Unparseable(ann) /\ ~NotRgbTriple(ann)

HasRgbOrNone(ann) == ~NotRgbTriple(ann)

(* the annotation with its colour payload taken away *)
Uncoloured(ann) == [ann EXCEPT !.color = Absent]

RECURSIVE WellColouredDraws(_)
WellColouredDraws(ks) ==
    IF ks = <<>> THEN <<>>
    ELSE (IF Drawable(Head(ks))
          THEN DrawsOf(SelectSeq(annotations[Head(ks)].anns, WellColoured), PageIndex(Head(ks)))
          ELSE <<>>) \o WellColouredDraws(Tail(ks))

RECURSIVE DefaultedDrawsOf(_, _)
DefaultedDrawsOf(anns, page) ==
    IF anns = <<>> THEN <<>>
    ELSE (IF NotRgbTriple(Head(anns)) THEN <<>>
          ELSE IF Unparseable(Head(anns)) THEN DrawsOf(<<Uncoloured(Head(anns))>>, page)
               ELSE DrawsOf(<<Head(anns)>>, page))
             \o DefaultedDrawsOf(Tail(anns), page)

RECURSIVE DefaultedDraws(_)
DefaultedDraws(ks) ==
    IF ks = <<>> THEN <<>>
    ELSE (IF Drawable(Head(ks))
          THEN DefaultedDrawsOf(annotations[Head(ks)].anns, PageIndex(Head(ks)))
          ELSE <<>>) \o DefaultedDraws(Tail(ks))

-----------------------------------------------------------------------------
(* PUT /api/sheets/:id of a request that changes no genre, folder or       *)
(* instrument; arg.file tells whether it carries a replacement file        *)
UpdateCheck ==
    /\ \E c \in DOMAIN calls :
          /\ At(c, "update", "start")
          /\ LET existing == ownedSheets(db, calls[c].arg.id, calls[c].user)
             IN  IF existing = {}
                 THEN Finish(c, 404, "Sheet not found")
                 ELSE \E sheet \in existing :
                         Goto(c, IF ~calls[c].arg.file THEN "row"
                                 ELSE IF sheet.storage_key # Null THEN "file" ELSE "upload",
                              [storageKey |-> sheet.storage_key, old |-> sheet.storage_key])
    /\ UNCHANGED <<db, logBuffer>>
    /\ UNCHANGED hvars

(* await deleteFile(sheet.storage_key), before the new file is uploaded *)
UpdateDeleteOld ==
    /\ \E c \in DOMAIN calls :
          /\ At(c, "update", "file")
          /\ LET said == consoleLog(logBuffer, "Deleting from Supabase Storage:", <<>>)
             IN  \E ok \in BOOLEAN :
                    IF ok
                    THEN /\ db' = removeFile(db, calls[c].loc.old)
                         /\ logBuffer' = said
                         /\ Goto(c, "upload", calls[c].loc)
                    ELSE /\ logBuffer' = consoleError(consoleError(said, "Supabase delete error:", <<>>),
                                                      "Update sheet failed:", <<>>)
                         /\ Finish(c, 500, "storage error")
                         /\ UNCHANGED db
    /\ UNCHANGED hvars

(* await uploadFile(...); its failure reaches the outer catch *)
UpdateUpload ==
    /\ \E c \in DOMAIN calls :
          /\ At(c, "update", "upload")
          /\ LET said == consoleLog(logBuffer, "Uploading to Supabase Storage:", <<>>)
             IN  \E ok \in BOOLEAN :
                    IF ok
                    THEN /\ db' = [db EXCEPT !.storage = @ \cup {newFileName(db.nextId)},
                                             !.nextId = @ + 1]
                         /\ logBuffer' = consoleLog(said, "Upload success:", <<>>)
                         /\ Goto(c, "row", [calls[c].loc EXCEPT !.storageKey = newFileName(db.nextId)])
                    ELSE /\ logBuffer' = consoleError(consoleError(said, "Supabase upload error:", <<>>),
                                                      "Update sheet failed:", <<>>)
                         /\ Finish(c, 500, "storage error")
                         /\ UNCHANGED db
    /\ UNCHANGED hvars

(* UPDATE sheets SET ..., storage_key = $21 ... WHERE id = $23; the query  *)
(* may fail                                                                *)
UpdateRow ==
    /\ \E c \in DOMAIN calls :
          /\ At(c, "update", "row")
          /\ \E ok \in BOOLEAN :
                IF ok
                THEN /\ db' = [db EXCEPT !.sheets =
                              {IF s.id = calls[c].arg.id
                               THEN [s EXCEPT !.storage_key = calls[c].loc.storageKey]
                               ELSE s : s \in @}]
                     /\ Goto(c, "tail", calls[c].loc)
                     /\ UNCHANGED logBuffer
                ELSE /\ logBuffer' = consoleError(logBuffer, "Update sheet failed:", <<>>)
                     /\ Finish(c, 500, "database error")
                     /\ UNCHANGED db
    /\ UNCHANGED hvars

(* the queries that read folder_ids, instrument and genre_name back, and   *)
(* res.json; result.rows[0] is undefined when the row has gone             *)
UpdateTail ==
    /\ \E c \in DOMAIN calls :
          /\ At(c, "update", "tail")
          /\ IF \E s \in db.sheets : s.id = calls[c].arg.id
             THEN Finish(c, 200, "row") /\ UNCHANGED logBuffer
             ELSE /\ Finish(c, 500, "TypeError")
                  /\ logBuffer' = consoleError(logBuffer, "Update sheet failed:", <<>>)
    /\ UNCHANGED db
    /\ UNCHANGED hvars

UpdateMenu ==
    {Call("update", "ann", [id |-> "s1", file |-> TRUE]),
     Call("update", "ann", [id |-> "s1", file |-> FALSE]),
     Call("update", "bob", [id |-> "s2", file |-> TRUE]),
     Call("update", "bob", [id |-> "s1", file |-> TRUE])}

InitUpdate ==
    /\ LibraryIdle
    /\ db = TwoSheets
    /\ calls \in [1..MaxCalls -> UpdateMenu]

NextUpdate ==
    \/ UpdateCheck
    \/ UpdateDeleteOld
    \/ UpdateUpload
    \/ UpdateRow
    \/ UpdateTail

SpecUpdate == InitUpdate /\ [][NextUpdate]_vars

-----------------------------------------------------------------------------
AllAnswered == \A c \in DOMAIN calls : Answered(c)

\* C25: once every PUT /api/sheets/:id has been answered, with success or
\* with an error, the storage_key of every sheet names a file that exists
\* in storage.
C25_StoredFileKept ==
    AllAnswered =>
        \A s \in db.sheets : s.storage_key # Null => s.storage_key \in db.storage

-----------------------------------------------------------------------------
(* POST /api/ocr.  upload.single('file') has written the upload to the     *)
(* uploads directory before the handler runs: loc.temp tells whether that  *)
(* temporary file exists.                                                  *)
OcrCall(mimetype) ==
    [Call("ocr", "nobody", [file |-> TRUE, mimetype |-> mimetype])
        EXCEPT !.loc = [temp |-> TRUE]]

NoFileCall ==
    [Call("ocr", "nobody", [file |-> FALSE, mimetype |-> "none"])
        EXCEPT !.loc = [temp |-> FALSE]]

(* res.json / res.status().json of the OCR handler; unlink tells whether   *)
(* fs.unlinkSync(req.file.path) ran before it                              *)
OcrAnswer(c, status, body, unlink) ==
    calls' = [calls EXCEPT ![c].pc = "done", ![c].reply = Reply(status, body),
                           ![c].loc = [temp |-> calls[c].loc.temp /\ ~unlink]]

OcrStart ==
    /\ \E c \in DOMAIN calls :
          /\ At(c, "ocr", "start")
          /\ IF ~calls[c].arg.file
             THEN /\ OcrAnswer(c, 400, "No file uploaded", FALSE)
                  /\ UNCHANGED logBuffer
             ELSE /\ logBuffer' = consoleLog(logBuffer, "OCR Request - File:", <<>>)
                  /\ IF calls[c].arg.mimetype = "application/pdf"
                     THEN Goto(c, "pdf", calls[c].loc)
                     ELSE IF calls[c].arg.mimetype = "image/png"
                          THEN Goto(c, "image", calls[c].loc)
                          ELSE OcrAnswer(c, 200, "Unsupported file type for OCR", FALSE)
    /\ UNCHANGED db
    /\ UNCHANGED hvars

(* await extractMetadataFromPdf(req.file.path): text, no text, or a throw *)
OcrPdf ==
    /\ \E c \in DOMAIN calls :
          /\ At(c, "ocr", "pdf")
          /\ \E outcome \in {"text", "no text", "failed"} :
                CASE outcome = "text" ->
                        /\ OcrAnswer(c, 200, "metadata", TRUE)
                        /\ UNCHANGED logBuffer
                  [] outcome = "no text" ->
                        /\ OcrAnswer(c, 200, "No embedded text found in PDF. Please convert to image for OCR.", FALSE)
                        /\ UNCHANGED logBuffer
                  [] OTHER ->
                        /\ OcrAnswer(c, 500, "OCR Failed: ", FALSE)
                        /\ logBuffer' = consoleError(logBuffer, "OCR Failed", <<>>)
    /\ UNCHANGED db
    /\ UNCHANGED hvars

(* await extractMetadataFromImage(req.file.path): recognized, or a throw *)
OcrImage ==
    /\ \E c \in DOMAIN calls :
          /\ At(c, "ocr", "image")
          /\ \E ok \in BOOLEAN :
                IF ok
                THEN /\ OcrAnswer(c, 200, "metadata", TRUE)
                     /\ logBuffer' = consoleLog(consoleLog(consoleLog(logBuffer,
                            "=== OCR RAW TEXT ===", <<>>), "text", <<>>),
                            "=== OCR LINES COUNT:", <<>>)
                ELSE /\ OcrAnswer(c, 500, "OCR Failed: ", FALSE)
                     /\ logBuffer' = consoleError(logBuffer, "OCR Failed", <<>>)
    /\ UNCHANGED db
    /\ UNCHANGED hvars

OcrMenu ==
    {OcrCall("application/pdf"), OcrCall("image/png"), OcrCall("text/plain"), NoFileCall}

InitOcr ==
    /\ LibraryIdle
    /\ db = NoDb
    /\ calls \in [1..MaxCalls -> OcrMenu]

NextOcr ==
    \/ OcrStart
    \/ OcrPdf
    \/ OcrImage

SpecOcr == InitOcr /\ [][NextOcr]_vars

-----------------------------------------------------------------------------
\* C26: when a POST /api/ocr request that uploaded a file is answered, its
\* temporary upload file has been removed, whatever the answer is.
C26_TempFileRemoved ==
    \A c \in DOMAIN calls :
        (calls[c].kind = "ocr" /\ calls[c].arg.file /\ Answered(c)) => ~calls[c].loc.temp

-----------------------------------------------------------------------------
(* JSON web tokens: the payload and what jwt.verify makes of the token.    *)
(* A field the payload does not have reads as "undefined".                 *)
(* jwt.sign({ userId: user.id, email: user.email }, JWT_SECRET, ...) of    *)
(* login and register                                                      *)
accessToken(user) ==
    [userId |-> user.id, email |-> user.email, type |-> "undefined", state |-> "valid"]

(* jwt.sign({ userId: result.rows[0].id, type: 'reset' }, JWT_SECRET, ...) *)
(* of forgot-password                                                      *)
resetToken(user) ==
    [userId |-> user.id, email |-> "undefined", type |-> "reset", state |-> "valid"]

(* no Authorization header, no token field in the body *)
noToken ==
    [userId |-> "undefined", email |-> "undefined", type |-> "undefined", state |-> "missing"]

expired(token) == [token EXCEPT !.state = "expired"]

(* a token signed with another secret *)
forged(token) == [token EXCEPT !.state = "forged"]

(* jwt.verify(token, JWT_SECRET): the payload, or the name of the error *)
verify(token) ==
    CASE token.state = "valid"   -> [threw |-> "no", decoded |-> token]
      [] token.state = "expired" -> [threw |-> "TokenExpiredError", decoded |-> token]
      [] OTHER                   -> [threw |-> "JsonWebTokenError", decoded |-> token]

(* the authenticate middleware in front of a route: arg.token is the       *)
(* bearer token, noToken without Authorization header; on success req.user.id *)
(* is set and the route handler starts                                     *)
Authenticate ==
    /\ \E c \in DOMAIN calls :
          /\ calls[c].pc = "auth"
          /\ IF calls[c].arg.token = noToken
             THEN Finish(c, 401, "Authentication required")
             ELSE LET v == verify(calls[c].arg.token)
                  IN  IF v.threw = "TokenExpiredError"
                      THEN Finish(c, 401, "Token expired")
                      ELSE IF v.threw # "no"
                           THEN Finish(c, 401, "Invalid token")
                           ELSE calls' = [calls EXCEPT ![c].pc = "start",
                                                       ![c].user = v.decoded.userId]
    /\ UNCHANGED <<db, logBuffer>>
    /\ UNCHANGED hvars

(* POST /api/auth/reset-password up to bcrypt.hash *)
ResetVerify ==
    /\ \E c \in DOMAIN calls :
          /\ At(c, "reset", "start")
          /\ IF calls[c].arg.token = noToken \/ calls[c].arg.newPassword = ""
             THEN Finish(c, 400, "Token and new password are required")
             ELSE IF calls[c].arg.newPassword = "short"
                  THEN Finish(c, 400, "Password must be at least 6 characters")
                  ELSE LET v == verify(calls[c].arg.token)
                       IN  IF v.threw # "no"
                           THEN Finish(c, 400, "Invalid or expired reset token")
                           ELSE IF v.decoded.type # "reset"
                                THEN Finish(c, 400, "Invalid reset token")
                                ELSE Goto(c, "update", [userId |-> v.decoded.userId])
    /\ UNCHANGED <<db, logBuffer>>
    /\ UNCHANGED hvars

(* UPDATE users SET password_hash = $1 WHERE id = $2 *)
ResetUpdate ==
    /\ \E c \in DOMAIN calls :
          /\ At(c, "reset", "update")
          /\ db' = [db EXCEPT !.users =
                       {IF u.id = calls[c].loc.userId
                        THEN [u EXCEPT !.password_hash = calls[c].arg.newPassword]
                        ELSE u : u \in @}]
          /\ Finish(c, 200, "Password reset successfully")
    /\ UNCHANGED logBuffer
    /\ UNCHANGED hvars

Ann == [id |-> "ann", email |-> "ann@x.org", password_hash |-> "old"]
Bob == [id |-> "bob", email |-> "bob@x.org", password_hash |-> "old"]

TokenSample ==
    {accessToken(Ann), resetToken(Ann), resetToken(Bob), expired(resetToken(Ann)),
     expired(accessToken(Ann)), forged(accessToken(Ann)), forged(resetToken(Ann))}

(* GET /api/sheets behind authenticate, and reset-password requests *)
TokenMenu ==
    {[Call("list", Null, [token |-> t]) EXCEPT !.pc = "auth"] : t \in TokenSample \cup {noToken}}
    \cup {Call("reset", Null, [token |-> t, newPassword |-> "secret1"]) : t \in TokenSample}
    \cup {Call("reset", Null, [token |-> resetToken(Ann), newPassword |-> "short"]),
          Call("reset", Null, [token |-> noToken, newPassword |-> "secret1"])}

InitToken ==
    /\ LibraryIdle
    /\ db = [TwoSheets EXCEPT !.users = {Ann, Bob}]
    /\ calls \in [1..MaxCalls -> TokenMenu]

NextToken ==
    \/ Authenticate
    \/ ListSheets
    \/ ResetVerify
    \/ ResetUpdate

SpecToken == InitToken /\ [][NextToken]_vars

-----------------------------------------------------------------------------
CarriesResetToken(c) == calls[c].arg.token.type = "reset"

\* C27: a request that presents a token of type 'reset' never gets past the
\* authenticate middleware, and reset-password never accepts a token that
\* login or register issued.
C27_ResetTokenOnlyResets ==
    \A c \in DOMAIN calls :
        /\ (calls[c].kind = "list" /\ CarriesResetToken(c))
               => (calls[c].pc = "auth" \/ calls[c].reply.status = 401)
        /\ (calls[c].kind = "reset" /\ ~CarriesResetToken(c))
               => (calls[c].pc = "start" \/ calls[c].reply.status = 400)

-----------------------------------------------------------------------------
(* The log buffer on its own: console.log and console.error called one      *)
(* after the other.  calls keeps every console call made since the process  *)
(* started, oldest first; the n-th call prints the number n, so that no two *)
(* entries are alike.                                                       *)
MaxLogs == 5        \* console calls made after the initial state

ConsoleCall(kind, n) == Call(kind, Null, n)

(* the entry formatLog builds for a console call *)
entryOf(call) ==
    formatLog(IF call.kind = "console.error" THEN "ERROR" ELSE "INFO", call.arg, <<>>)

(* the buffer buf after the console calls cs[lo] .. cs[hi], made in that  *)
(* order (the run is split in halves, the first half computed before the  *)
(* second starts, to keep the evaluation shallow)                         *)
RECURSIVE logged(_, _, _, _)
logged(buf, cs, lo, hi) ==
    IF lo > hi THEN buf
    ELSE IF lo = hi
         THEN IF cs[lo].kind = "console.error"
              THEN consoleError(buf, cs[lo].arg, <<>>)
              ELSE consoleLog(buf, cs[lo].arg, <<>>)
         ELSE LET mid  == (lo + hi) \div 2
                  half == logged(buf, cs, lo, mid)
              IN  IF Len(half) >= 0 THEN logged(half, cs, mid + 1, hi) ELSE half

(* the process has just started, or has logged up to two entries short of *)
(* a full buffer                                                           *)
StartLogged == {0, LOG_BUFFER_SIZE - 2}

InitLog ==
    /\ ExtractIdle
    /\ DownloadIdle
    /\ parked = <<>>
    /\ db = NoDb
    /\ \E n \in StartLogged :
           /\ calls = [k \in 1..n |-> ConsoleCall("console.log", k)]
           /\ logBuffer = logged(<<>>, calls, 1, n)

MayLog == \E s \in StartLogged : Len(calls) >= s /\ Len(calls) < s + MaxLogs

(* console.log(n) *)
ConsoleLog ==
    /\ MayLog
    /\ logBuffer' = consoleLog(logBuffer, Len(calls) + 1, <<>>)
    /\ calls' = Append(calls, ConsoleCall("console.log", Len(calls) + 1))
    /\ UNCHANGED <<hvars, db>>

(* console.error(n) *)
ConsoleError ==
    /\ MayLog
    /\ logBuffer' = consoleError(logBuffer, Len(calls) + 1, <<>>)
    /\ calls' = Append(calls, ConsoleCall("console.error", Len(calls) + 1))
    /\ UNCHANGED <<hvars, db>>

NextLog ==
    \/ ConsoleLog
    \/ ConsoleError

SpecLog == InitLog /\ [][NextLog]_vars

-----------------------------------------------------------------------------
\* C28: after any sequence of console.log and console.error calls logBuffer
\* holds at most LOG_BUFFER_SIZE entries, newest first, and they are exactly
\* the entries of the most recent min(n, LOG_BUFFER_SIZE) of the n calls made
\* so far.
C28_LogBufferKeepsNewest ==
    LET n == Len(calls)
    IN  /\ Len(logBuffer) <= LOG_BUFFER_SIZE
        /\ Len(logBuffer) = Min({n, LOG_BUFFER_SIZE})
        /\ \A i \in 1..Len(logBuffer) : logBuffer[i] = entryOf(calls[n - i + 1])

(* the buffer has overflowed, and entries of both kinds were pushed since *)
C28_Witness ==
    /\ Len(calls) > LOG_BUFFER_SIZE + 1
    /\ Len(logBuffer) = LOG_BUFFER_SIZE
    /\ logBuffer[1].type = "ERROR"
    /\ logBuffer[2].type = "INFO"

====
